---- MODULE Spec2Model ----
(***************************************************************************)
(* Model of the DeFolio portfolio accounting engine and of the helpers     *)
(* around it:                                                              *)
(*   src/lib/utils/pnl.ts              calculateTokenPnL, calculateFIFO,   *)
(*                                     calculatePortfolioPnL,              *)
(*                                     calculatePnLByChain,                *)
(*                                     calculateTaxLots                    *)
(*   src/pages/api/wallet/[address].ts the per-token results and the tax   *)
(*                                     summary of the handler, and its     *)
(*                                     responses                           *)
(*   src/pages/_document.tsx           retryWithBackoff, RateLimiter       *)
(*   src/lib/integrations/pyth.ts      subscribeToPriceUpdates             *)
(*                                                                         *)
(* Numbers.  The code computes in IEEE doubles; the model computes the     *)
(* same expressions exactly, over integers and normalised fractions        *)
(* [num, den].  0/0 is the value NaN, as in the code.                      *)
(* Timestamps.  The code keeps milliseconds in one number.  One year of    *)
(* milliseconds does not fit the model checker's integers, so a timestamp  *)
(* is the pair [s, ms] of whole seconds and the milliseconds left over;    *)
(* order and difference are those of s * 1000 + ms.                        *)
(***************************************************************************)
EXTENDS Integers, Sequences, FiniteSets, TLC

VARIABLES
    pc,             \* position of the running computation
    transactions,   \* the caller's transaction list (Transaction[])
    token,          \* calculateTokenPnL: the token argument
    simplifiedTxs,  \* the sorted event list being replayed
    idx,            \* index of the next event of simplifiedTxs
    lots,           \* the lot ledger of the running replay
    lastTx,         \* the event the last replay step processed (None before)
    prevLots,       \* the ledger before the last replay step
    realizedPnL,    \* calculateFIFO: realizedPnL
    totalInvested,  \* calculateFIFO: totalInvested
    prevRealized,   \* realizedPnL before the last replay step
    prevInvested,   \* totalInvested before the last replay step
    txByToken,      \* calculateTaxLots: the groups of the Map, in key order
    group,          \* calculateTaxLots: number of the group being replayed
    shortTermGains, \* calculateTaxLots: shortTermGains
    longTermGains,  \* calculateTaxLots: longTermGains
    prevShort,      \* shortTermGains before the last replay step
    prevLong,       \* longTermGains before the last replay step
    currentBalance, \* calculateTokenPnL: currentBalance.balanceFormatted
    currentPrice,   \* calculateTokenPnL: currentPrice
    result,         \* the returned record (None until the call returns)
    log             \* the calls made so far on the caller's list, in order

VARIABLES
    stillToSell,    \* a disposal's loop: remainingToSell (remaining)
    req,            \* handler: the request (method, address)
    res,            \* handler: the status codes sent on the response, in order
    maxConcurrent,  \* RateLimiter: maxConcurrent
    activeCount,    \* RateLimiter: activeCount
    queue,          \* RateLimiter: queue, the callers whose resolve it holds
    timers,         \* RateLimiter: the callers a setTimeout is to resolve
    callers,        \* RateLimiter: where each caller of execute is
    options,        \* retryWithBackoff: the options after the defaults
    attempt,        \* retryWithBackoff: attempt
    delay,          \* retryWithBackoff: delay
    sleeps,         \* retryWithBackoff: the delays slept so far, in order
    fnCalls,        \* retryWithBackoff: how the calls of fn so far ended
    outcome,        \* retryWithBackoff: returned or thrown (None before)
    isActive,       \* subscribeToPriceUpdates: isActive
    pollTimer,      \* subscribeToPriceUpdates: a setTimeout(poll) is pending
    delivered,      \* the updates.size of every call of onPriceUpdate
    unsubscribedAt  \* the calls of onPriceUpdate made before unsubscribe

inputVars == <<transactions, token>>
replayVars == <<simplifiedTxs, idx, lots, lastTx, prevLots>>
fifoVars == <<realizedPnL, totalInvested, prevRealized, prevInvested>>
taxVars == <<txByToken, group, shortTermGains, longTermGains, prevShort, prevLong>>
callVars == <<currentBalance, currentPrice, result, log>>

engineVars == <<inputVars, replayVars, fifoVars, taxVars, callVars>>

loopVars == <<stillToSell>>
httpVars == <<req, res>>
limiterVars == <<maxConcurrent, activeCount, queue, timers, callers>>
retryVars == <<options, attempt, delay, sleeps, fnCalls, outcome>>
subVars == <<isActive, pollTimer, delivered, unsubscribedAt>>
auxVars == <<loopVars, httpVars, limiterVars, retryVars, subVars>>

vars == <<pc, engineVars, auxVars>>

\* no event processed yet, no record returned yet
None == [type |-> "none"]
\* 0 / 0
NaN == [num |-> 0, den |-> 0]
\* usdValueAtTime?: number, when the field is absent
NoPrice == -1

(***************************************************************************)
(* Bounds of the model.                                                    *)
(***************************************************************************)
\* the longest list replayed step by step
MaxLen == 3
\* the longest list of a whole call
MaxCallLen == 2
\* the highest price of an event
MaxPrice == 3
\* the most calls made on one list
MaxCalls == 2

(***************************************************************************)
(* Timestamps.                                                             *)
(***************************************************************************)
MS_PER_SEC == 1000
ONE_YEAR_SEC == 365 * 24 * 60 * 60

Ts(sec, msec) == [s |-> sec, ms |-> msec]

\* a.timestamp - b.timestamp < 0
TsLess(a, b) == a.s < b.s \/ (a.s = b.s /\ a.ms < b.ms)

\* a.timestamp - b.timestamp <= 0
TsLeq(a, b) == a.s < b.s \/ (a.s = b.s /\ a.ms <= b.ms)

\* a - b, with the milliseconds borrowed from the seconds
TsMinus(a, b) ==
    IF a.ms >= b.ms THEN Ts(a.s - b.s, a.ms - b.ms)
    ELSE Ts(a.s - b.s - 1, a.ms - b.ms + MS_PER_SEC)

\* const ONE_YEAR = 365 * 24 * 60 * 60 * 1000
ONE_YEAR == Ts(ONE_YEAR_SEC, 0)

(***************************************************************************)
(* Exact arithmetic for the two divisions of calculateTokenPnL.            *)
(***************************************************************************)
Abs(n) == IF n < 0 THEN -n ELSE n
Min(a, b) == IF a <= b THEN a ELSE b
Max(a, b) == IF a >= b THEN a ELSE b

RECURSIVE GCD(_, _)
GCD(a, b) == IF b = 0 THEN a ELSE GCD(b, a % b)

\* n / d of the code, for d >= 0: a fraction in lowest terms, NaN for 0 / 0
Div(n, d) ==
    IF d = 0 THEN NaN
    ELSE LET g == GCD(Abs(n), d)
         IN  [num |-> n \div g, den |-> d \div g]

RECURSIVE SumSeq(_, _)
\* s.reduce((sum, x) => sum + F(x), 0)
SumSeq(F(_), s) == IF s = <<>> THEN 0 ELSE F(Head(s)) + SumSeq(F, Tail(s))

(***************************************************************************)
(* Token identity.                                                         *)
(***************************************************************************)
TOKEN_ADDR == "0xab"
TOKEN_ADDR_MIXED == "0xAB"
OTHER_ADDR == "0xcd"

toLowerCase(a) == IF a = TOKEN_ADDR_MIXED THEN TOKEN_ADDR ELSE a

Token(addr, chain) == [address |-> addr, chainId |-> chain]

TheToken == Token(TOKEN_ADDR, "ethereum")

(***************************************************************************)
(* calculateTokenPnL: the event list handed to calculateFIFO.              *)
(***************************************************************************)
\* .filter((tx) => tx.valueFormatted > 0) left out
keepAll(tx) == TRUE

\* usdValueAtTime || 0
OrZero(x) == IF x = NoPrice THEN 0 ELSE x

isTokenTx(tok, tx) ==
    /\ toLowerCase(tx.address) = toLowerCase(tok.address)
    /\ tx.chainId = tok.chainId

isNonZero(tx) == tx.valueFormatted > 0

simplify(tx) ==
    [timestamp |-> tx.timestamp,
     amount    |-> tx.valueFormatted,
     priceUsd  |-> OrZero(tx.usdValueAtTime),
     type      |-> IF tx.type = "receive" \/ tx.type = "swap"
                   THEN "buy" ELSE "sell"]

MapSeq(F(_), s) == [i \in 1..Len(s) |-> F(s[i])]

\* a sort that puts an element before the elements of its timestamp
insertBeforeTies(sorted, x) ==
    LET k == Cardinality({i \in 1..Len(sorted) :
                             TsLess(sorted[i].timestamp, x.timestamp)})
    IN  SubSeq(sorted, 1, k) \o <<x>> \o SubSeq(sorted, k + 1, Len(sorted))

\* Array.prototype.sort((a, b) => a.timestamp - b.timestamp): a stable sort
insertByTimestamp(sorted, x) ==
    LET k == Cardinality({i \in 1..Len(sorted) :
                             TsLeq(sorted[i].timestamp, x.timestamp)})
    IN  SubSeq(sorted, 1, k) \o <<x>> \o SubSeq(sorted, k + 1, Len(sorted))

\* the list left as the caller ordered it
unsorted(s) == s

RECURSIVE sortByTimestamp(_)
sortByTimestamp(s) ==
    IF s = <<>> THEN <<>>
    ELSE insertByTimestamp(sortByTimestamp(SubSeq(s, 1, Len(s) - 1)), s[Len(s)])

simplifyTxs(tok, txs) ==
    sortByTimestamp(
        MapSeq(simplify,
               SelectSeq(SelectSeq(txs, LAMBDA tx : isTokenTx(tok, tx)),
                         isNonZero)))

(***************************************************************************)
(* calculateFIFO.                                                          *)
(***************************************************************************)
isAcquire(tx) == tx.type = "buy" \/ tx.type = "receive"
isDispose(tx) == tx.type = "sell" \/ tx.type = "send"

Ledger(ls, realized, invested) ==
    [lots |-> ls, realizedPnL |-> realized, totalInvested |-> invested]

\* fifoAcquire adding to the newest lot when it has the price of the event
fifoAcquireMerge(st, tx) ==
    LET n == Len(st.lots) IN
    Ledger(IF n > 0 /\ st.lots[n].priceUsd = tx.priceUsd
           THEN [st.lots EXCEPT ![n].amount = @ + tx.amount]
           ELSE Append(st.lots, [amount    |-> tx.amount,
                                 priceUsd  |-> tx.priceUsd,
                                 timestamp |-> tx.timestamp]),
           st.realizedPnL,
           st.totalInvested + tx.amount * tx.priceUsd)

\* lots.push(...); totalInvested += tx.amount * tx.priceUsd
fifoAcquire(st, tx) ==
    Ledger(Append(st.lots, [amount    |-> tx.amount,
                            priceUsd  |-> tx.priceUsd,
                            timestamp |-> tx.timestamp]),
           st.realizedPnL,
           st.totalInvested + tx.amount * tx.priceUsd)

RECURSIVE fifoSellNewestFirst(_, _, _)
\* fifoSell taking from the newest lot (lots.pop() for lots.shift())
fifoSellNewestFirst(st, remainingToSell, priceUsd) ==
    IF remainingToSell > 0 /\ Len(st.lots) > 0
    THEN LET n == Len(st.lots)
             newestLot == st.lots[n] IN
         IF newestLot.amount <= remainingToSell
         THEN fifoSellNewestFirst(
                 Ledger(SubSeq(st.lots, 1, n - 1),
                        st.realizedPnL + (newestLot.amount * priceUsd
                                          - newestLot.amount * newestLot.priceUsd),
                        st.totalInvested),
                 remainingToSell - newestLot.amount, priceUsd)
         ELSE fifoSellNewestFirst(
                 Ledger([st.lots EXCEPT ![n].amount = @ - remainingToSell],
                        st.realizedPnL + (remainingToSell * priceUsd
                                          - remainingToSell * newestLot.priceUsd),
                        st.totalInvested),
                 0, priceUsd)
    ELSE st

\* fifoSell without the branch that sells the entire lot: the rest of the
\* disposal is taken off the oldest lot, whatever its amount
fifoSellNoShift(st, remainingToSell, priceUsd) ==
    IF remainingToSell > 0 /\ Len(st.lots) > 0
    THEN LET oldestLot == Head(st.lots) IN
         Ledger(<<[oldestLot EXCEPT !.amount = @ - remainingToSell]>>
                    \o Tail(st.lots),
                st.realizedPnL + (remainingToSell * priceUsd
                                  - remainingToSell * oldestLot.priceUsd),
                st.totalInvested)
    ELSE st

RECURSIVE fifoSellStrict(_, _, _)
\* fifoSell with oldestLot.amount < remainingToSell for <=
fifoSellStrict(st, remainingToSell, priceUsd) ==
    IF remainingToSell > 0 /\ Len(st.lots) > 0
    THEN LET oldestLot == Head(st.lots) IN
         IF oldestLot.amount < remainingToSell
         THEN fifoSellStrict(
                 Ledger(Tail(st.lots),
                        st.realizedPnL + (oldestLot.amount * priceUsd
                                          - oldestLot.amount * oldestLot.priceUsd),
                        st.totalInvested),
                 remainingToSell - oldestLot.amount, priceUsd)
         ELSE fifoSellStrict(
                 Ledger(<<[oldestLot EXCEPT !.amount = @ - remainingToSell]>>
                            \o Tail(st.lots),
                        st.realizedPnL + (remainingToSell * priceUsd
                                          - remainingToSell * oldestLot.priceUsd),
                        st.totalInvested),
                 0, priceUsd)
    ELSE st

RECURSIVE fifoSellDropLot(_, _, _)
\* fifoSell removing the oldest lot also when only a part of it is sold
fifoSellDropLot(st, remainingToSell, priceUsd) ==
    IF remainingToSell > 0 /\ Len(st.lots) > 0
    THEN LET oldestLot == Head(st.lots) IN
         IF oldestLot.amount <= remainingToSell
         THEN fifoSellDropLot(
                 Ledger(Tail(st.lots),
                        st.realizedPnL + (oldestLot.amount * priceUsd
                                          - oldestLot.amount * oldestLot.priceUsd),
                        st.totalInvested),
                 remainingToSell - oldestLot.amount, priceUsd)
         ELSE fifoSellDropLot(
                 Ledger(Tail(st.lots),
                        st.realizedPnL + (remainingToSell * priceUsd
                                          - remainingToSell * oldestLot.priceUsd),
                        st.totalInvested),
                 0, priceUsd)
    ELSE st

RECURSIVE fifoSell(_, _, _)
\* while (remainingToSell > 0 && lots.length > 0) { ... }
fifoSell(st, remainingToSell, priceUsd) ==
    IF remainingToSell > 0 /\ Len(st.lots) > 0
    THEN LET oldestLot == Head(st.lots) IN
         IF oldestLot.amount <= remainingToSell
         THEN fifoSell(
                 Ledger(Tail(st.lots),
                        st.realizedPnL + (oldestLot.amount * priceUsd
                                          - oldestLot.amount * oldestLot.priceUsd),
                        st.totalInvested),
                 remainingToSell - oldestLot.amount, priceUsd)
         ELSE fifoSell(
                 Ledger(<<[oldestLot EXCEPT !.amount = @ - remainingToSell]>>
                            \o Tail(st.lots),
                        st.realizedPnL + (remainingToSell * priceUsd
                                          - remainingToSell * oldestLot.priceUsd),
                        st.totalInvested),
                 0, priceUsd)
    ELSE st

\* fifoDispose taking the proceeds of the disposal off totalInvested
fifoDisposeRefund(st, tx) ==
    [fifoSell(st, tx.amount, tx.priceUsd)
        EXCEPT !.totalInvested = @ - tx.amount * tx.priceUsd]

fifoDispose(st, tx) == fifoSell(st, tx.amount, tx.priceUsd)

\* one iteration of for (const tx of transactions)
fifoStep(st, tx) ==
    IF isAcquire(tx) THEN fifoAcquire(st, tx)
    ELSE IF isDispose(tx) THEN fifoDispose(st, tx)
    ELSE st

RECURSIVE fifoFrom(_, _)
fifoFrom(st, txs) ==
    IF txs = <<>> THEN st ELSE fifoFrom(fifoStep(st, Head(txs)), Tail(txs))

calculateFIFO(txs) == fifoFrom(Ledger(<<>>, 0, 0), txs)

(***************************************************************************)
(* calculateTokenPnL: valuation of the replayed ledger.                    *)
(***************************************************************************)
lotAmount(lot) == lot.amount
lotCost(lot) == lot.amount * lot.priceUsd

remainingAmountOf(ls) == SumSeq(lotAmount, ls)

\* costBasisOf without the test remainingLots.length > 0
costBasisNoGuard(ls) == Div(SumSeq(lotCost, ls), SumSeq(lotAmount, ls))

costBasisOf(ls) ==
    IF Len(ls) > 0 THEN Div(SumSeq(lotCost, ls), SumSeq(lotAmount, ls))
    ELSE Div(0, 1)

\* the larger of the supplied balance and the lots' total
effectiveBalanceAmountMax(balanceFormatted, ls) ==
    IF balanceFormatted >= remainingAmountOf(ls)
    THEN balanceFormatted ELSE remainingAmountOf(ls)

effectiveBalanceAmountOf(balanceFormatted, ls) ==
    IF balanceFormatted > 0 THEN balanceFormatted ELSE remainingAmountOf(ls)

\* a - q * b for an integer a, b and a fraction q
MinusTimes(a, q, b) ==
    IF q = NaN THEN NaN ELSE Div(a * q.den - q.num * b, q.den)

\* a + q for an integer a and a fraction q
PlusFrac(a, q) ==
    IF q = NaN THEN NaN ELSE Div(a * q.den + q.num, q.den)

\* (q / d) * 100 for a fraction q and an integer d > 0
Percent(q, d) ==
    IF q = NaN THEN NaN ELSE Div(q.num * 100, q.den * d)

\* the total without the realized part
totalPnLUnrealizedOnly(realized, unrealized) == unrealized

\* const totalPnL = realizedPnL + unrealizedPnL
totalPnLOf(realized, unrealized) == PlusFrac(realized, unrealized)

valuation(st, balanceFormatted, price) ==
    LET costBasis == costBasisOf(st.lots)
        effectiveBalanceAmount ==
            effectiveBalanceAmountOf(balanceFormatted, st.lots)
        currentValue == effectiveBalanceAmount * price
        unrealizedPnL == MinusTimes(currentValue, costBasis, effectiveBalanceAmount)
        totalPnL == totalPnLOf(st.realizedPnL, unrealizedPnL)
    IN  [realizedPnL      |-> st.realizedPnL,
         unrealizedPnL    |-> unrealizedPnL,
         totalPnL         |-> totalPnL,
         costBasis        |-> costBasis,
         currentValue     |-> currentValue,
         totalInvested    |-> st.totalInvested,
         percentageChange |-> IF st.totalInvested > 0
                              THEN Percent(totalPnL, st.totalInvested)
                              ELSE Div(0, 1),
         remainingLots    |-> st.lots,
         effectiveBalanceAmount |-> effectiveBalanceAmount]

\* lines 94-104: the returned record, with the locals the properties read
calculateTokenPnL(tok, txs, balanceFormatted, price) ==
    LET v == valuation(calculateFIFO(simplifyTxs(tok, txs)),
                       balanceFormatted, price)
    IN  [token            |-> tok,
         chainId          |-> tok.chainId,
         realizedPnL      |-> v.realizedPnL,
         unrealizedPnL    |-> v.unrealizedPnL,
         totalPnL         |-> v.totalPnL,
         costBasis        |-> v.costBasis,
         currentValue     |-> v.currentValue,
         totalInvested    |-> v.totalInvested,
         percentageChange |-> v.percentageChange,
         remainingLots    |-> v.remainingLots,
         effectiveBalanceAmount |-> v.effectiveBalanceAmount]

(***************************************************************************)
(* calculatePortfolioPnL and calculatePnLByChain.                          *)
(***************************************************************************)
\* a + b for fractions a and b
AddFrac(a, b) ==
    IF a = NaN \/ b = NaN THEN NaN
    ELSE Div(a.num * b.den + b.num * a.den, a.den * b.den)

RECURSIVE SumFrac(_, _)
\* s.reduce((sum, x) => sum + F(x), 0) for fractions F(x)
SumFrac(F(_), s) ==
    IF s = <<>> THEN Div(0, 1)
    ELSE AddFrac(SumFrac(F, SubSeq(s, 1, Len(s) - 1)), F(s[Len(s)]))

calculatePortfolioPnL(pnlByToken) ==
    LET totalRealizedPnL == SumSeq(LAMBDA pnl : pnl.realizedPnL, pnlByToken)
        totalUnrealizedPnL == SumFrac(LAMBDA pnl : pnl.unrealizedPnL, pnlByToken)
        totalPnL == PlusFrac(totalRealizedPnL, totalUnrealizedPnL)
        totalValue == SumSeq(LAMBDA pnl : pnl.currentValue, pnlByToken)
        sumInvested == SumSeq(LAMBDA pnl : pnl.totalInvested, pnlByToken)
    IN  [totalRealizedPnL   |-> totalRealizedPnL,
         totalUnrealizedPnL |-> totalUnrealizedPnL,
         totalPnL           |-> totalPnL,
         totalValue         |-> totalValue,
         totalInvested      |-> sumInvested,
         percentageChange   |-> IF sumInvested > 0
                                THEN Percent(totalPnL, sumInvested)
                                ELSE Div(0, 1)]

\* !pnlByChain[pnl.chainId]: the entry is absent, 0 or NaN
isFalsy(entries, c) ==
    \/ c \notin DOMAIN entries
    \/ entries[c] = NaN
    \/ entries[c].num = 0

\* pnlByChainStep with = for +=
pnlByChainStepAssign(pnlByChain, pnl) ==
    [x \in DOMAIN pnlByChain \cup {pnl.chainId} |->
        IF x = pnl.chainId THEN pnl.totalPnL ELSE pnlByChain[x]]

\* one iteration of pnlByToken.forEach((pnl) => { ... })
pnlByChainStep(pnlByChain, pnl) ==
    LET c == pnl.chainId
        entry == IF isFalsy(pnlByChain, c) THEN Div(0, 1) ELSE pnlByChain[c]
    IN  [x \in DOMAIN pnlByChain \cup {c} |->
            IF x = c THEN AddFrac(entry, pnl.totalPnL) ELSE pnlByChain[x]]

RECURSIVE pnlByChainFrom(_, _)
pnlByChainFrom(pnlByChain, pnlByToken) ==
    IF pnlByToken = <<>> THEN pnlByChain
    ELSE pnlByChainFrom(pnlByChainStep(pnlByChain, Head(pnlByToken)),
                        Tail(pnlByToken))

\* const pnlByChain: Record<string, number> = {}
NoEntries == [c \in {} |-> Div(0, 1)]

calculatePnLByChain(pnlByToken) == pnlByChainFrom(NoEntries, pnlByToken)

(***************************************************************************)
(* calculateTaxLots.                                                       *)
(***************************************************************************)
\* the key without the address: `${tx.chainId}`
tokenKeyChainOnly(tx) == <<tx.chainId>>

\* `${tx.chainId}-${tx.token.address}`
tokenKey(tx) == <<tx.chainId, tx.address>>

RECURSIVE keysOf(_, _)
\* the keys of the Map in insertion order
keysOf(txs, seen) ==
    IF txs = <<>> THEN seen
    ELSE keysOf(Tail(txs),
                IF \E i \in 1..Len(seen) : seen[i] = tokenKey(Head(txs))
                THEN seen ELSE Append(seen, tokenKey(Head(txs))))

\* lines 227-235: the values of txByToken in insertion order
groupByToken(txs) ==
    LET keys == keysOf(txs, <<>>) IN
    [k \in 1..Len(keys) |-> SelectSeq(txs, LAMBDA tx : tokenKey(tx) = keys[k])]

TaxState(ls, short, long) ==
    [lots |-> ls, shortTermGains |-> short, longTermGains |-> long]

\* holdingPeriod > ONE_YEAR for holdingPeriod >= ONE_YEAR
isLongTermStrict(tx, lot) ==
    TsLess(ONE_YEAR, TsMinus(tx.timestamp, lot.timestamp))

\* holdingPeriod = tx.timestamp - lot.timestamp; holdingPeriod >= ONE_YEAR
isLongTerm(tx, lot) ==
    TsLeq(ONE_YEAR, TsMinus(tx.timestamp, lot.timestamp))

\* lines 245-249
taxReceive(st, tx) ==
    [st EXCEPT !.lots = Append(@, [amount    |-> tx.valueFormatted,
                                   priceUsd  |-> OrZero(tx.usdValueAtTime),
                                   timestamp |-> tx.timestamp])]

RECURSIVE taxSellAs(_, _, _, _)
\* the loop of taxSell with every portion classified long-term or not as told
taxSellAs(st, remainingToSell, tx, long) ==
    IF remainingToSell > 0 /\ Len(st.lots) > 0
    THEN LET lot == Head(st.lots)
             sellAmount == Min(lot.amount, remainingToSell)
             gain == sellAmount * (OrZero(tx.usdValueAtTime) - lot.priceUsd)
             gained == IF long
                       THEN [st EXCEPT !.longTermGains = @ + gain]
                       ELSE [st EXCEPT !.shortTermGains = @ + gain]
         IN  IF lot.amount <= remainingToSell
             THEN taxSellAs([gained EXCEPT !.lots = Tail(@)],
                            remainingToSell - lot.amount, tx, long)
             ELSE taxSellAs([gained EXCEPT !.lots =
                                <<[lot EXCEPT !.amount = @ - remainingToSell]>>
                                    \o Tail(@)],
                            0, tx, long)
    ELSE st

\* taxSell with the holding period of the oldest lot taken for the whole send
taxSellByOldestLot(st, remainingToSell, tx) ==
    taxSellAs(st, remainingToSell, tx,
              Len(st.lots) > 0 /\ isLongTerm(tx, Head(st.lots)))

RECURSIVE taxSell(_, _, _)
\* lines 253-274: while (remainingToSell > 0 && lots.length > 0) { ... }
taxSell(st, remainingToSell, tx) ==
    IF remainingToSell > 0 /\ Len(st.lots) > 0
    THEN LET lot == Head(st.lots)
             sellAmount == Min(lot.amount, remainingToSell)
             gain == sellAmount * (OrZero(tx.usdValueAtTime) - lot.priceUsd)
             gained == IF isLongTerm(tx, lot)
                       THEN [st EXCEPT !.longTermGains = @ + gain]
                       ELSE [st EXCEPT !.shortTermGains = @ + gain]
         IN  IF lot.amount <= remainingToSell
             THEN taxSell([gained EXCEPT !.lots = Tail(@)],
                          remainingToSell - lot.amount, tx)
             ELSE taxSell([gained EXCEPT !.lots =
                              <<[lot EXCEPT !.amount = @ - remainingToSell]>>
                                  \o Tail(@)],
                          0, tx)
    ELSE st

\* one iteration of txs.forEach((tx) => { ... })
taxStep(st, tx) ==
    IF tx.type = "receive" THEN taxReceive(st, tx)
    ELSE IF tx.type = "send" THEN taxSell(st, tx.valueFormatted, tx)
    ELSE st

RECURSIVE taxFrom(_, _)
taxFrom(st, txs) ==
    IF txs = <<>> THEN st ELSE taxFrom(taxStep(st, Head(txs)), Tail(txs))

RECURSIVE taxGroups(_, _, _)
\* txByToken.forEach((txs) => { txs.sort(...); const lots = []; ... })
taxGroups(groups, short, long) ==
    IF groups = <<>> THEN TaxState(<<>>, short, long)
    ELSE LET st == taxFrom(TaxState(<<>>, short, long),
                           sortByTimestamp(Head(groups)))
         IN  taxGroups(Tail(groups), st.shortTermGains, st.longTermGains)

TaxResult(short, long) ==
    [shortTermGains    |-> short,
     longTermGains     |-> long,
     totalCapitalGains |-> short + long]

calculateTaxLots(txs) ==
    LET st == taxGroups(groupByToken(txs), 0, 0)
    IN  TaxResult(st.shortTermGains, st.longTermGains)

(***************************************************************************)
(* The wallet handler: the tokens it values and its tax summary.           *)
(***************************************************************************)
\* type ChainId, in the order of the keys of txsByChain
ChainIds == <<"ethereum", "polygon", "arbitrum", "base">>

RECURSIVE tokensOf(_, _)
\* lines 70-76: txTokenMap, keyed by chain and lower-case address
tokensOf(txs, seen) ==
    IF txs = <<>> THEN seen
    ELSE LET tx == Head(txs) IN
         tokensOf(Tail(txs),
                  IF \E i \in 1..Len(seen) :
                        /\ seen[i].chainId = tx.chainId
                        /\ toLowerCase(seen[i].address) = toLowerCase(tx.address)
                  THEN seen ELSE Append(seen, Token(tx.address, tx.chainId)))

\* lines 160-182 and calculatePortfolioPnL, line 176: totalRealizedPnL
totalRealizedPnLOf(txs) ==
    LET tokens == tokensOf(txs, <<>>) IN
    SumSeq(LAMBDA tok :
               calculateTokenPnL(tok,
                   SelectSeq(SelectSeq(txs, LAMBDA tx : isTokenTx(tok, tx)),
                             isNonZero),
                   0, 0).realizedPnL,
           tokens)

\* lines 160-182: the balance of a token, 0 when balanceByKey has no entry
balanceOf(tok, held, balanceFormatted) ==
    IF isTokenTx(held, [address |-> tok.address, chainId |-> tok.chainId])
    THEN balanceFormatted ELSE 0

\* lines 160-205: const pnlByToken = tokens.map((token) => { ... })
pnlByTokenOf(txs, held, balanceFormatted, price) ==
    LET tokens == tokensOf(txs, <<>>) IN
    [k \in 1..Len(tokens) |->
        calculateTokenPnL(tokens[k],
            SelectSeq(SelectSeq(txs, LAMBDA tx : isTokenTx(tokens[k], tx)),
                      isNonZero),
            balanceOf(tokens[k], held, balanceFormatted), price)]

\* lines 160-209: pnlByToken, portfolioMetrics and pnlByChain
portfolioOf(txs, held, balanceFormatted, price) ==
    LET pnlByToken == pnlByTokenOf(txs, held, balanceFormatted, price) IN
    [pnlByToken       |-> pnlByToken,
     portfolioMetrics |-> calculatePortfolioPnL(pnlByToken),
     pnlByChain       |-> calculatePnLByChain(pnlByToken)]

RECURSIVE chainSell(_, _, _)
\* lines 232-239: while (remaining > 0 && lots.length) { ... }
chainSell(st, remaining, tx) ==
    IF remaining > 0 /\ Len(st.lots) > 0
    THEN LET lot == Head(st.lots)
             sell == Min(lot.amount, remaining)
             gain == sell * (OrZero(tx.usdValueAtTime) - lot.priceUsd)
             gained == IF isLongTerm(tx, lot)
                       THEN [st EXCEPT !.longTermGains = @ + gain]
                       ELSE [st EXCEPT !.shortTermGains = @ + gain]
         IN  chainSell(
                 [gained EXCEPT !.lots =
                     IF lot.amount - sell = 0 THEN Tail(@)
                     ELSE <<[lot EXCEPT !.amount = @ - sell]>> \o Tail(@)],
                 remaining - sell, tx)
    ELSE st

\* lines 227-241: one iteration of txs.forEach
chainStep(st, tx) ==
    IF tx.type = "receive" THEN taxReceive(st, tx)
    ELSE IF tx.type = "send" THEN chainSell(st, tx.valueFormatted, tx)
    ELSE st

RECURSIVE chainFrom(_, _)
chainFrom(st, txs) ==
    IF txs = <<>> THEN st ELSE chainFrom(chainStep(st, Head(txs)), Tail(txs))

\* lines 221-243: byChain[c]
byChainOf(txs, c) ==
    LET st == chainFrom(TaxState(<<>>, 0, 0),
                        sortByTimestamp(SelectSeq(txs, LAMBDA tx : tx.chainId = c)))
    IN  TaxResult(st.shortTermGains, st.longTermGains)

\* line 249: transactions.filter((t) => t.type === 'send').length
realizedEventsOf(txs) == Len(SelectSeq(txs, LAMBDA t : t.type = "send"))

\* lines 211-251: taxSummary
taxSummaryOf(txs) ==
    LET taxLots == calculateTaxLots(SelectSeq(txs, isNonZero)) IN
    [shortTermGains    |-> taxLots.shortTermGains,
     longTermGains     |-> taxLots.longTermGains,
     totalCapitalGains |-> taxLots.totalCapitalGains,
     realizedEvents    |-> realizedEventsOf(txs),
     byChain           |-> [k \in 1..Len(ChainIds) |-> byChainOf(txs, ChainIds[k])]]

(***************************************************************************)
(* Inputs.                                                                 *)
(***************************************************************************)
Tx(type, amount, price, ts, addr, chain) ==
    [type |-> type, valueFormatted |-> amount, usdValueAtTime |-> price,
     timestamp |-> ts, address |-> addr, chainId |-> chain]


\* the replay of one token by calculateTokenPnL: receives of 10 or 15 at
\* three prices, sends of 10 or 15 at the lowest and the highest price, at
\* two timestamps, and the zero-amount transfers
Amounts == {10, 15}
Prices == {1, 2, MaxPrice}
SendPrices == {1, MaxPrice}
Times == {Ts(0, 0), Ts(1, 0)}
PnLTypes == {"receive", "send"}

PnLTxs ==
    {Tx("receive", a, p, t, TOKEN_ADDR, "ethereum") :
        a \in Amounts, p \in Prices, t \in Times}
    \cup
    {Tx("send", a, p, t, TOKEN_ADDR, "ethereum") :
        a \in Amounts, p \in SendPrices, t \in Times}
    \cup
    {Tx(ty, 0, 1, Ts(0, 0), TOKEN_ADDR, "ethereum") : ty \in PnLTypes}

Balances == {0, 5}
CurrentPrices == {0, 2}

\* the replay of one token by calculateTaxLots: lots acquired at time 0 or
\* one year later, sends around the one-year boundary
TaxAmounts == {5, 10}
TaxPrices == {1, MaxPrice}
TaxTimes == {Ts(0, 0), Ts(ONE_YEAR_SEC - 1, 0),
             Ts(ONE_YEAR_SEC - 1, MS_PER_SEC - 1), Ts(ONE_YEAR_SEC, 0)}

TaxTxs ==
    {Tx("receive", a, p, t, TOKEN_ADDR, "ethereum") :
        a \in TaxAmounts, p \in TaxPrices, t \in {Ts(0, 0), Ts(ONE_YEAR_SEC, 0)}}
    \cup
    {Tx("send", a, p, t, TOKEN_ADDR, "ethereum") :
        a \in TaxAmounts, p \in TaxPrices, t \in TaxTimes}
    \cup
    {Tx(ty, 0, 1, Ts(0, 0), TOKEN_ADDR, "ethereum") : ty \in PnLTypes}

\* whole calls: every transaction type
CallTypes == {"receive", "send", "swap", "contract_interaction"}
CallPrices == {1, MaxPrice}

CallTxs ==
    {Tx(ty, a, p, t, TOKEN_ADDR, "ethereum") :
        ty \in PnLTypes, a \in Amounts, p \in CallPrices, t \in Times}
    \cup
    {Tx(ty, 10, p, t, TOKEN_ADDR, "ethereum") :
        ty \in CallTypes, p \in CallPrices, t \in Times}

CallBalances == {0, 5}
CallCurrentPrices == {2}

\* calls one after the other: one token, lists in and out of time order
SessionTxs ==
    {Tx(ty, 10, p, t, TOKEN_ADDR, "ethereum") :
        ty \in PnLTypes, p \in CallPrices, t \in Times}

\* the wallet: two tokens on ethereum, one of them with its address in two
\* spellings, and a token on polygon; receives at time 0, sends at time 1
WalletTokens ==
    {Token(TOKEN_ADDR, "ethereum"), Token(TOKEN_ADDR_MIXED, "ethereum"),
     Token(OTHER_ADDR, "ethereum"), Token(TOKEN_ADDR, "polygon")}

WalletTxs ==
    {Tx("receive", 10, p, Ts(0, 0), tok.address, tok.chainId) :
        p \in CallPrices, tok \in WalletTokens}
    \cup
    {Tx("send", 10, p, Ts(1, 0), tok.address, tok.chainId) :
        p \in CallPrices, tok \in WalletTokens}

\* unsubscribe has not been called
NotUnsubscribed == -1

\* no loop entered
LoopIdle == stillToSell = 0

\* no request received
HandlerIdle ==
    /\ req = None
    /\ res = <<>>

\* no limiter constructed
LimiterIdle ==
    /\ maxConcurrent = 0
    /\ activeCount = 0
    /\ queue = <<>>
    /\ timers = <<>>
    /\ callers = <<>>

\* no retry started
RetryIdle ==
    /\ options = None
    /\ attempt = 0
    /\ delay = 0
    /\ sleeps = <<>>
    /\ fnCalls = <<>>
    /\ outcome = None

\* no subscription made
SubscriptionIdle ==
    /\ isActive = FALSE
    /\ pollTimer = FALSE
    /\ delivered = <<>>
    /\ unsubscribedAt = NotUnsubscribed

EngineIdle ==
    /\ token = TheToken
    /\ simplifiedTxs = <<>>
    /\ idx = 1
    /\ lots = <<>>
    /\ lastTx = None
    /\ prevLots = <<>>
    /\ realizedPnL = 0
    /\ totalInvested = 0
    /\ prevRealized = 0
    /\ prevInvested = 0
    /\ txByToken = <<>>
    /\ group = 0
    /\ shortTermGains = 0
    /\ longTermGains = 0
    /\ prevShort = 0
    /\ prevLong = 0
    /\ currentBalance = 0
    /\ currentPrice = 0
    /\ result = None
    /\ log = <<>>

Idle ==
    /\ EngineIdle
    /\ LoopIdle
    /\ HandlerIdle
    /\ LimiterIdle
    /\ RetryIdle
    /\ SubscriptionIdle

(***************************************************************************)
(* Spec: one call of calculateTokenPnL, one replay step per action.        *)
(***************************************************************************)
Init ==
    /\ \E n \in 0..MaxLen : transactions \in [1..n -> PnLTxs]
    /\ pc = "start"
    /\ Idle

\* lines 26-45: filter, map, sort
Prepare ==
    /\ pc = "start"
    /\ simplifiedTxs' = simplifyTxs(token, transactions)
    /\ pc' = "replay"
    /\ UNCHANGED auxVars
    /\ UNCHANGED <<inputVars, idx, lots, lastTx, prevLots, fifoVars, taxVars,
                   callVars>>

ReplayStep(tx) ==
    LET st == fifoStep(Ledger(lots, realizedPnL, totalInvested), tx) IN
    /\ lots' = st.lots
    /\ realizedPnL' = st.realizedPnL
    /\ totalInvested' = st.totalInvested
    /\ lastTx' = tx
    /\ prevLots' = lots
    /\ prevRealized' = realizedPnL
    /\ prevInvested' = totalInvested
    /\ idx' = idx + 1
    /\ UNCHANGED auxVars
    /\ UNCHANGED <<pc, inputVars, simplifiedTxs, taxVars, callVars>>

\* calculateFIFO, lines 120-127
Acquire ==
    /\ pc = "replay"
    /\ idx <= Len(simplifiedTxs)
    /\ isAcquire(simplifiedTxs[idx])
    /\ ReplayStep(simplifiedTxs[idx])

\* calculateFIFO, lines 128-153
Dispose ==
    /\ pc = "replay"
    /\ idx <= Len(simplifiedTxs)
    /\ ~isAcquire(simplifiedTxs[idx])
    /\ isDispose(simplifiedTxs[idx])
    /\ ReplayStep(simplifiedTxs[idx])

\* calculateTokenPnL, lines 64-104, for the balance and price of the caller
Valuate ==
    /\ pc = "replay"
    /\ idx > Len(simplifiedTxs)
    /\ \E b \in Balances, p \in CurrentPrices :
          /\ currentBalance' = b
          /\ currentPrice' = p
          /\ result' = valuation(Ledger(lots, realizedPnL, totalInvested), b, p)
    /\ pc' = "done"
    /\ UNCHANGED auxVars
    /\ UNCHANGED <<inputVars, replayVars, fifoVars, taxVars, log>>

Next == Prepare \/ Acquire \/ Dispose \/ Valuate

Spec == Init /\ [][Next]_vars

(***************************************************************************)
(* SpecTax: one call of calculateTaxLots, one replay step per action.      *)
(***************************************************************************)
InitTax ==
    /\ \E n \in 0..MaxLen : transactions \in [1..n -> TaxTxs]
    /\ pc = "taxStart"
    /\ Idle

\* lines 227-235: group by token
TaxGroup ==
    /\ pc = "taxStart"
    /\ txByToken' = groupByToken(transactions)
    /\ pc' = "taxReplay"
    /\ UNCHANGED auxVars
    /\ UNCHANGED <<inputVars, replayVars, fifoVars, group, shortTermGains,
                   longTermGains, prevShort, prevLong, callVars>>

\* lines 238-241: the next group, sorted, with a ledger of its own
TaxEnterGroup ==
    /\ pc = "taxReplay"
    /\ idx > Len(simplifiedTxs)
    /\ group < Len(txByToken)
    /\ group' = group + 1
    /\ simplifiedTxs' = sortByTimestamp(txByToken[group + 1])
    /\ idx' = 1
    /\ lots' = <<>>
    /\ lastTx' = None
    /\ prevLots' = <<>>
    /\ UNCHANGED auxVars
    /\ UNCHANGED <<pc, inputVars, fifoVars, txByToken, shortTermGains,
                   longTermGains, prevShort, prevLong, callVars>>

TaxReplayStep(tx) ==
    LET st == taxStep(TaxState(lots, shortTermGains, longTermGains), tx) IN
    /\ lots' = st.lots
    /\ shortTermGains' = st.shortTermGains
    /\ longTermGains' = st.longTermGains
    /\ lastTx' = tx
    /\ prevLots' = lots
    /\ prevShort' = shortTermGains
    /\ prevLong' = longTermGains
    /\ idx' = idx + 1
    /\ UNCHANGED auxVars
    /\ UNCHANGED <<pc, inputVars, simplifiedTxs, fifoVars, txByToken, group,
                   callVars>>

\* lines 244-249
TaxReceive ==
    /\ pc = "taxReplay"
    /\ idx <= Len(simplifiedTxs)
    /\ simplifiedTxs[idx].type = "receive"
    /\ TaxReplayStep(simplifiedTxs[idx])

\* lines 250-275
TaxSend ==
    /\ pc = "taxReplay"
    /\ idx <= Len(simplifiedTxs)
    /\ simplifiedTxs[idx].type = "send"
    /\ TaxReplayStep(simplifiedTxs[idx])

\* lines 279-283
TaxReturn ==
    /\ pc = "taxReplay"
    /\ idx > Len(simplifiedTxs)
    /\ group = Len(txByToken)
    /\ result' = TaxResult(shortTermGains, longTermGains)
    /\ pc' = "taxDone"
    /\ UNCHANGED auxVars
    /\ UNCHANGED <<inputVars, replayVars, fifoVars, taxVars, currentBalance,
                   currentPrice, log>>

NextTax == TaxGroup \/ TaxEnterGroup \/ TaxReceive \/ TaxSend \/ TaxReturn

SpecTax == InitTax /\ [][NextTax]_vars

(***************************************************************************)
(* SpecCalls: whole calls of calculateTokenPnL, of calculateTaxLots and of *)
(* the handler's tax summary on one transaction list.                      *)
(***************************************************************************)
InitCalls ==
    /\ \E n \in 0..MaxCallLen : transactions \in [1..n -> CallTxs]
    /\ pc = "idle"
    /\ Idle

\* the caller's array after a call that sorts the array it is given
callerListSorted(txs) == sortByTimestamp(txs)

\* the caller's array after a call: filter() (pnl.ts:26, 35) and the arrays of
\* txByToken (pnl.ts:229-234) are arrays of their own, sort() reorders those,
\* and every lot is an object of its own (pnl.ts:122, 245)
callerListAfter(txs) == txs

\* a call returns r to the caller of the list
Returns(fn, r) ==
    /\ result' = r
    /\ transactions' = callerListAfter(transactions)
    /\ log' = Append(log, [fn     |-> fn,
                           before |-> transactions,
                           after  |-> callerListAfter(transactions),
                           result |-> r])
    /\ UNCHANGED auxVars
    /\ UNCHANGED <<token, replayVars, fifoVars, taxVars>>

\* calculateTokenPnL(token, transactions, currentBalance, currentPrice)
CallTokenPnL ==
    /\ pc = "idle"
    /\ \E b \in CallBalances, p \in CallCurrentPrices :
          /\ currentBalance' = b
          /\ currentPrice' = p
          /\ Returns(<<"calculateTokenPnL", b, p>>,
                     calculateTokenPnL(token, transactions, b, p))
    /\ pc' = "pnlReturned"

\* calculateTaxLots(transactions)
CallTaxLots ==
    /\ pc = "idle"
    /\ Returns(<<"calculateTaxLots">>, calculateTaxLots(transactions))
    /\ pc' = "taxReturned"
    /\ UNCHANGED <<currentBalance, currentPrice>>

\* the handler, lines 211-251
CallTaxSummary ==
    /\ pc = "idle"
    /\ Returns(<<"taxSummary">>, taxSummaryOf(transactions))
    /\ pc' = "summaryReturned"
    /\ UNCHANGED <<currentBalance, currentPrice>>

NextCalls == CallTokenPnL \/ CallTaxLots \/ CallTaxSummary

SpecCalls == InitCalls /\ [][NextCalls]_vars

(***************************************************************************)
(* SpecWallet: the calls the handler makes on the transaction list of a    *)
(* wallet with several tokens and chains.                                  *)
(***************************************************************************)
InitWallet ==
    /\ \E n \in 0..MaxCallLen : transactions \in [1..n -> WalletTxs]
    /\ pc = "idle"
    /\ Idle

\* the handler, lines 160-209
CallPortfolio ==
    /\ pc = "idle"
    /\ \E b \in CallBalances, p \in CallCurrentPrices :
          /\ currentBalance' = b
          /\ currentPrice' = p
          /\ Returns(<<"portfolio", b, p>>,
                     portfolioOf(transactions, token, b, p))
    /\ pc' = "portfolioReturned"

NextWallet == CallTokenPnL \/ CallTaxLots \/ CallTaxSummary \/ CallPortfolio

SpecWallet == InitWallet /\ [][NextWallet]_vars

(***************************************************************************)
(* SpecSession: the handler's calls one after the other on the same list,  *)
(* in any order.                                                           *)
(***************************************************************************)
InitSession ==
    /\ \E n \in 0..MaxCallLen : transactions \in [1..n -> SessionTxs]
    /\ pc = "idle"
    /\ Idle

\* the handler goes on to its next call on the same list
Resume ==
    /\ pc \in {"pnlReturned", "taxReturned", "summaryReturned",
               "portfolioReturned"}
    /\ Len(log) < MaxCalls
    /\ pc' = "idle"
    /\ UNCHANGED auxVars
    /\ UNCHANGED <<inputVars, replayVars, fifoVars, taxVars, callVars>>

NextSession ==
    CallTokenPnL \/ CallTaxLots \/ CallTaxSummary \/ CallPortfolio \/ Resume

SpecSession == InitSession /\ [][NextSession]_vars

(***************************************************************************)
(* SpecLoop: the lot-matching loop of one disposal, one iteration per      *)
(* action, in calculateFIFO (pnl.ts:130-152), in calculateTaxLots          *)
(* (pnl.ts:251-274) and in the per-chain replay of the handler             *)
(* ([address].ts:230-240).  prevLots is the ledger before the disposal.    *)
(***************************************************************************)
\* the most lots resident when a disposal starts
MaxLots == 2

\* pnl.ts:131: remainingToSell > 0 && lots.length > 0
loopCondition(ls, remainingToSell) == remainingToSell > 0 /\ Len(ls) > 0

\* pnl.ts:132-151: the body of the loop of calculateFIFO
fifoIteration(st, remainingToSell, priceUsd) ==
    LET oldestLot == Head(st.lots) IN
    IF oldestLot.amount <= remainingToSell
    THEN [st |-> Ledger(Tail(st.lots),
                        st.realizedPnL + (oldestLot.amount * priceUsd
                                          - oldestLot.amount * oldestLot.priceUsd),
                        st.totalInvested),
          remainingToSell |-> remainingToSell - oldestLot.amount]
    ELSE [st |-> Ledger(<<[oldestLot EXCEPT !.amount = @ - remainingToSell]>>
                            \o Tail(st.lots),
                        st.realizedPnL + (remainingToSell * priceUsd
                                          - remainingToSell * oldestLot.priceUsd),
                        st.totalInvested),
          remainingToSell |-> 0]

\* pnl.ts:254-273: the body of the loop of calculateTaxLots
taxIteration(st, remainingToSell, tx) ==
    LET lot == Head(st.lots)
        sellAmount == Min(lot.amount, remainingToSell)
        gain == sellAmount * (OrZero(tx.usdValueAtTime) - lot.priceUsd)
        gained == IF isLongTerm(tx, lot)
                  THEN [st EXCEPT !.longTermGains = @ + gain]
                  ELSE [st EXCEPT !.shortTermGains = @ + gain]
    IN  IF lot.amount <= remainingToSell
        THEN [st |-> [gained EXCEPT !.lots = Tail(@)],
              remainingToSell |-> remainingToSell - lot.amount]
        ELSE [st |-> [gained EXCEPT !.lots =
                         <<[lot EXCEPT !.amount = @ - remainingToSell]>>
                             \o Tail(@)],
              remainingToSell |-> 0]

\* chainIteration with the lot shifted only when something was sold of it
chainIterationKeepsEmptyLot(st, remaining, tx) ==
    LET lot == Head(st.lots)
        sell == Min(lot.amount, remaining)
        gain == sell * (OrZero(tx.usdValueAtTime) - lot.priceUsd)
        gained == IF isLongTerm(tx, lot)
                  THEN [st EXCEPT !.longTermGains = @ + gain]
                  ELSE [st EXCEPT !.shortTermGains = @ + gain]
    IN  [st |-> [gained EXCEPT !.lots =
                    IF lot.amount - sell = 0 /\ sell > 0 THEN Tail(@)
                    ELSE <<[lot EXCEPT !.amount = @ - sell]>> \o Tail(@)],
         remainingToSell |-> remaining - sell]

\* [address].ts:233-238: the body of the loop of the handler
chainIteration(st, remaining, tx) ==
    LET lot == Head(st.lots)
        sell == Min(lot.amount, remaining)
        gain == sell * (OrZero(tx.usdValueAtTime) - lot.priceUsd)
        gained == IF isLongTerm(tx, lot)
                  THEN [st EXCEPT !.longTermGains = @ + gain]
                  ELSE [st EXCEPT !.shortTermGains = @ + gain]
    IN  [st |-> [gained EXCEPT !.lots =
                    IF lot.amount - sell = 0 THEN Tail(@)
                    ELSE <<[lot EXCEPT !.amount = @ - sell]>> \o Tail(@)],
         remainingToSell |-> remaining - sell]

\* the lots of calculateFIFO come of events with amount # 0 (pnl.ts:35); the
\* lots of the two tax replays come of any receive, also one of amount 0
LoopAmounts == {5, 10}
LoopLots(amounts) ==
    {[amount |-> a, priceUsd |-> 1, timestamp |-> t] :
        a \in amounts, t \in {Ts(0, 0), Ts(1, 0)}}
LoopLedgers(amounts) ==
    {ls \in UNION {[1..n -> LoopLots(amounts)] : n \in 0..MaxLots} :
        \A i \in 1..Len(ls) - 1 : TsLeq(ls[i].timestamp, ls[i + 1].timestamp)}

\* the disposals: of 5, 10 or 15 at the highest price, a year after time 0
LoopSells ==
    {[type |-> "sell", amount |-> a, priceUsd |-> MaxPrice,
      timestamp |-> Ts(ONE_YEAR_SEC, 0)] : a \in {5, 10, 15}}
LoopSends ==
    {Tx("send", a, MaxPrice, Ts(ONE_YEAR_SEC, 0), TOKEN_ADDR, "ethereum") :
        a \in {0, 5, 10, 15}}

InitLoop ==
    /\ \/ /\ pc = "fifoSell"
          /\ lots \in LoopLedgers(LoopAmounts)
          /\ lastTx \in LoopSells
       \/ /\ pc \in {"taxSell", "chainSell"}
          /\ lots \in LoopLedgers(LoopAmounts \cup {0})
          /\ lastTx \in LoopSends
    /\ prevLots = lots
    /\ transactions = <<>>
    /\ token = TheToken
    /\ simplifiedTxs = <<>>
    /\ idx = 1
    /\ realizedPnL = 0
    /\ totalInvested = 0
    /\ prevRealized = 0
    /\ prevInvested = 0
    /\ txByToken = <<>>
    /\ group = 0
    /\ shortTermGains = 0
    /\ longTermGains = 0
    /\ prevShort = 0
    /\ prevLong = 0
    /\ currentBalance = 0
    /\ currentPrice = 0
    /\ result = None
    /\ log = <<>>
    /\ LoopIdle
    /\ HandlerIdle
    /\ LimiterIdle
    /\ RetryIdle
    /\ SubscriptionIdle

loopFrame ==
    UNCHANGED <<inputVars, simplifiedTxs, idx, lastTx, prevLots, totalInvested,
                prevRealized, prevInvested, txByToken, group, prevShort,
                prevLong, callVars, httpVars, limiterVars, retryVars, subVars>>

\* pnl.ts:129: let remainingToSell = tx.amount
FifoEnter ==
    /\ pc = "fifoSell"
    /\ stillToSell' = lastTx.amount
    /\ pc' = "fifoLoop"
    /\ UNCHANGED <<lots, realizedPnL, shortTermGains, longTermGains>>
    /\ loopFrame

\* pnl.ts:131-151: one iteration
FifoIterate ==
    /\ pc = "fifoLoop"
    /\ loopCondition(lots, stillToSell)
    /\ LET after == fifoIteration(Ledger(lots, realizedPnL, totalInvested),
                                  stillToSell, lastTx.priceUsd)
       IN  /\ lots' = after.st.lots
           /\ realizedPnL' = after.st.realizedPnL
           /\ stillToSell' = after.remainingToSell
    /\ UNCHANGED <<pc, shortTermGains, longTermGains>>
    /\ loopFrame

\* pnl.ts:131: the condition fails
FifoExit ==
    /\ pc = "fifoLoop"
    /\ ~loopCondition(lots, stillToSell)
    /\ pc' = "fifoExit"
    /\ UNCHANGED <<lots, stillToSell, realizedPnL, shortTermGains,
                   longTermGains>>
    /\ loopFrame

\* pnl.ts:251: let remainingToSell = tx.valueFormatted
TaxEnter ==
    /\ pc = "taxSell"
    /\ stillToSell' = lastTx.valueFormatted
    /\ pc' = "taxLoop"
    /\ UNCHANGED <<lots, realizedPnL, shortTermGains, longTermGains>>
    /\ loopFrame

\* pnl.ts:253-273: one iteration
TaxIterate ==
    /\ pc = "taxLoop"
    /\ loopCondition(lots, stillToSell)
    /\ LET after == taxIteration(TaxState(lots, shortTermGains, longTermGains),
                                 stillToSell, lastTx)
       IN  /\ lots' = after.st.lots
           /\ shortTermGains' = after.st.shortTermGains
           /\ longTermGains' = after.st.longTermGains
           /\ stillToSell' = after.remainingToSell
    /\ UNCHANGED <<pc, realizedPnL>>
    /\ loopFrame

\* pnl.ts:253: the condition fails
TaxExit ==
    /\ pc = "taxLoop"
    /\ ~loopCondition(lots, stillToSell)
    /\ pc' = "taxExit"
    /\ UNCHANGED <<lots, stillToSell, realizedPnL, shortTermGains,
                   longTermGains>>
    /\ loopFrame

\* [address].ts:231: let remaining = tx.valueFormatted
ChainEnter ==
    /\ pc = "chainSell"
    /\ stillToSell' = lastTx.valueFormatted
    /\ pc' = "chainLoop"
    /\ UNCHANGED <<lots, realizedPnL, shortTermGains, longTermGains>>
    /\ loopFrame

\* [address].ts:232-239: one iteration
ChainIterate ==
    /\ pc = "chainLoop"
    /\ loopCondition(lots, stillToSell)
    /\ LET after == chainIteration(TaxState(lots, shortTermGains, longTermGains),
                                   stillToSell, lastTx)
       IN  /\ lots' = after.st.lots
           /\ shortTermGains' = after.st.shortTermGains
           /\ longTermGains' = after.st.longTermGains
           /\ stillToSell' = after.remainingToSell
    /\ UNCHANGED <<pc, realizedPnL>>
    /\ loopFrame

\* [address].ts:232: the condition fails
ChainExit ==
    /\ pc = "chainLoop"
    /\ ~loopCondition(lots, stillToSell)
    /\ pc' = "chainExit"
    /\ UNCHANGED <<lots, stillToSell, realizedPnL, shortTermGains,
                   longTermGains>>
    /\ loopFrame

NextLoop ==
    \/ FifoEnter \/ FifoIterate \/ FifoExit
    \/ TaxEnter \/ TaxIterate \/ TaxExit
    \/ ChainEnter \/ ChainIterate \/ ChainExit

SpecLoop == InitLoop /\ [][NextLoop]_vars

\* the thread that runs the loop keeps running: no step of the loop waits
SpecLoopFair == SpecLoop /\ WF_vars(NextLoop)

(***************************************************************************)
(* SpecHandler: one invocation of the GET /api/wallet/[address] handler,   *)
(* one action per stretch of code between two awaits.  The awaited calls   *)
(* of other services return or throw.                                      *)
(***************************************************************************)
\* the most transactions fetchTransactionHistory returns
MaxFetched == 2

\* tx.token.address is '' / tx.token.address is undefined / tx.token is
\* undefined
EmptyAddress == ""
NoAddress == "undefined"
NoToken == "no token"

\* [address].ts:80, 116: !tx.token || !tx.token.address
hasNoTokenAddress(tx) == tx.address \in {EmptyAddress, NoAddress, NoToken}

\* part_014:399, 403 and tokens.ts:130: tx.token.address of no token and
\* address.toLowerCase() of no string throw a TypeError
balancesThrow(txs) ==
    \E i \in 1..Len(txs) : txs[i].address \in {NoAddress, NoToken}

Methods == {"GET", "POST"}
\* validateAddress(walletAddress) holds or not
Addresses == {"valid", "invalid"}

FetchedTxs ==
    {Tx(ty, 10, 1, Ts(0, 0), addr, "ethereum") :
        ty \in PnLTypes,
        addr \in {TOKEN_ADDR, EmptyAddress, NoAddress, NoToken}}

InitHandler ==
    /\ pc = "handlerStart"
    /\ req \in [method : Methods, address : Addresses]
    /\ res = <<>>
    /\ transactions = <<>>
    /\ EngineIdle
    /\ LoopIdle
    /\ LimiterIdle
    /\ RetryIdle
    /\ SubscriptionIdle

handlerFrame ==
    UNCHANGED <<token, replayVars, fifoVars, taxVars, callVars, req, loopVars,
                limiterVars, retryVars, subVars>>

\* res.status(code).json(...) and the return of the handler
Responds(code) ==
    /\ res' = Append(res, code)
    /\ pc' = "handlerReturned"

\* [address].ts:24-26
RejectMethod ==
    /\ pc = "handlerStart"
    /\ req.method # "GET"
    /\ Responds(405)
    /\ UNCHANGED transactions
    /\ handlerFrame

\* [address].ts:32-34, 288-290: the throw is caught
RejectAddress ==
    /\ pc = "handlerStart"
    /\ req.method = "GET"
    /\ req.address = "invalid"
    /\ Responds(500)
    /\ UNCHANGED transactions
    /\ handlerFrame

\* [address].ts:46-54: the history arrives, or the call throws or times out
FetchTransactions ==
    /\ pc = "handlerStart"
    /\ req.method = "GET"
    /\ req.address = "valid"
    /\ \/ /\ Responds(500)
          /\ UNCHANGED transactions
       \/ /\ \E n \in 0..MaxFetched : transactions' \in [1..n -> FetchedTxs]
          /\ pc' = "handlerBalances"
          /\ UNCHANGED res
    /\ handlerFrame

\* [address].ts:58-62 and part_014:389-433
CalculateBalances ==
    /\ pc = "handlerBalances"
    /\ IF balancesThrow(transactions)
       THEN Responds(500)
       ELSE /\ pc' = "handlerPrices"
            /\ UNCHANGED res
    /\ UNCHANGED transactions
    /\ handlerFrame

\* [address].ts:65-98: the prices arrive, or the call throws or times out
FetchPrices ==
    /\ pc = "handlerPrices"
    /\ \/ Responds(500)
       \/ /\ pc' = "handlerEnrich"
          /\ UNCHANGED res
    /\ UNCHANGED transactions
    /\ handlerFrame

\* [address].ts:100-126: the loop over the transactions returns from the
\* handler at the first transaction without a token address
EnrichTransactions ==
    /\ pc = "handlerEnrich"
    /\ IF \E i \in 1..Len(transactions) : hasNoTokenAddress(transactions[i])
       THEN pc' = "handlerReturned"
       ELSE pc' = "handlerRespond"
    /\ UNCHANGED <<res, transactions>>
    /\ handlerFrame

\* [address].ts:128-291: the dashboard is sent, or an awaited call throws
Respond ==
    /\ pc = "handlerRespond"
    /\ \/ Responds(200)
       \/ Responds(500)
    /\ UNCHANGED transactions
    /\ handlerFrame

NextHandler ==
    \/ RejectMethod
    \/ RejectAddress
    \/ FetchTransactions
    \/ CalculateBalances
    \/ FetchPrices
    \/ EnrichTransactions
    \/ Respond

SpecHandler == InitHandler /\ [][NextHandler]_vars

(***************************************************************************)
(* SpecLimiter: one RateLimiter and the callers of its execute             *)
(* (_document.tsx:220-247).  What runs between two awaits runs without     *)
(* interleaving: the test of the loop with the push of resolve or with     *)
(* activeCount++ and the call of fn; the finally block; the callback of    *)
(* setTimeout with the continuation of the caller it resolves.             *)
(***************************************************************************)
\* the most callers of execute
MaxCallers == 3
\* the highest maxConcurrent a limiter is constructed with
MaxConcurrent == 2

Callers == 1..MaxCallers

\* where a caller is, and how often it has pushed its resolve
Caller(at, waits) == [at |-> at, waits |-> waits]

\* the test with > for >=
mustWaitAbove(count, max) == count > max

\* _document.tsx:230: this.activeCount >= this.maxConcurrent
mustWait(count, max) == count >= max

\* the finally block without the wake-up of the next caller
wakeNone(q, pending) == [queue |-> q, timers |-> pending]

\* _document.tsx:240-243: if (this.queue.length > 0) { resolve =
\* this.queue.shift(); setTimeout(() => resolve(), this.minInterval) }
wakeNext(q, pending) ==
    IF Len(q) > 0
    THEN [queue |-> Tail(q), timers |-> Append(pending, Head(q))]
    ELSE [queue |-> q, timers |-> pending]

InitLimiter ==
    /\ pc = "idle"
    /\ maxConcurrent \in 1..MaxConcurrent
    /\ activeCount = 0
    /\ queue = <<>>
    /\ timers = <<>>
    /\ callers = [c \in Callers |-> Caller("idle", 0)]
    /\ transactions = <<>>
    /\ EngineIdle
    /\ LoopIdle
    /\ HandlerIdle
    /\ RetryIdle
    /\ SubscriptionIdle

limiterFrame ==
    UNCHANGED <<pc, engineVars, loopVars, httpVars, maxConcurrent, retryVars,
                subVars>>

\* _document.tsx:230-233: the loop of execute, entered by caller c
Enter(c) ==
    IF mustWait(activeCount, maxConcurrent)
    THEN /\ queue' = Append(queue, c)
         /\ callers' = [callers EXCEPT ![c] = Caller("waiting", @.waits + 1)]
         /\ UNCHANGED activeCount
    ELSE /\ activeCount' = activeCount + 1
         /\ callers' = [callers EXCEPT ![c].at = "running"]
         /\ UNCHANGED queue

\* a call of execute(fn)
Execute(c) ==
    /\ callers[c].at = "idle"
    /\ Enter(c)
    /\ UNCHANGED timers
    /\ limiterFrame

\* fn settles: return await fn() or its rejection, and the finally block
Complete(c) ==
    /\ callers[c].at = "running"
    /\ activeCount' = activeCount - 1
    /\ LET woken == wakeNext(queue, timers)
       IN  /\ queue' = woken.queue
           /\ timers' = woken.timers
    /\ \E settled \in {"returned", "thrown"} :
          callers' = [callers EXCEPT ![c].at = settled]
    /\ limiterFrame

\* the oldest timer fires: resolve(), and the caller tests the loop again
WakeUp ==
    /\ timers # <<>>
    /\ Enter(Head(timers))
    /\ timers' = Tail(timers)
    /\ limiterFrame

NextLimiter ==
    \/ \E c \in Callers : Execute(c)
    \/ \E c \in Callers : Complete(c)
    \/ WakeUp

SpecLimiter == InitLimiter /\ [][NextLimiter]_vars

\* every function that was started settles and every timer fires; calls of
\* execute come when the callers please
SpecLimiterFair ==
    /\ SpecLimiter
    /\ WF_vars(WakeUp)
    /\ \A c \in Callers : WF_vars(Complete(c))

(***************************************************************************)
(* SpecRetry: one call of retryWithBackoff (_document.tsx:120-159), one    *)
(* action per attempt and per sleep.  fn resolves or rejects as it likes.  *)
(***************************************************************************)
\* the highest maxRetries of a call
MaxRetries == 3

\* delays in units of time; 5 is an initialDelay above every maxDelay but 8
InitialDelays == {2, 5}
MaxDelays == {3, 8}
BackoffMultipliers == {1, 2}

RetryOptions ==
    [maxRetries : 0..MaxRetries, initialDelay : InitialDelays,
     maxDelay : MaxDelays, backoffMultiplier : BackoffMultipliers]

\* a sleep after every failed attempt, the last one too
sleepsAlways(n, maxRetries) == n < maxRetries

\* _document.tsx:144: attempt < maxRetries - 1
sleepsBefore(n, maxRetries) == n < maxRetries - 1

\* _document.tsx:147: Math.min(delay * backoffMultiplier, maxDelay)
nextDelay(d, opts) == Min(d * opts.backoffMultiplier, opts.maxDelay)

InitRetry ==
    /\ pc = "retryLoop"
    /\ options \in RetryOptions
    /\ attempt = 0
    /\ delay = options.initialDelay
    /\ sleeps = <<>>
    /\ fnCalls = <<>>
    /\ outcome = None
    /\ transactions = <<>>
    /\ EngineIdle
    /\ LoopIdle
    /\ HandlerIdle
    /\ LimiterIdle
    /\ SubscriptionIdle

retryFrame ==
    UNCHANGED <<engineVars, loopVars, httpVars, limiterVars, options, subVars>>

\* _document.tsx:138-140: return await fn(), fn resolves
AttemptResolves ==
    /\ pc = "retryLoop"
    /\ attempt < options.maxRetries
    /\ fnCalls' = Append(fnCalls, "resolved")
    /\ outcome' = [type |-> "returned", call |-> Len(fnCalls) + 1]
    /\ pc' = "retryDone"
    /\ UNCHANGED <<attempt, delay, sleeps>>
    /\ retryFrame

\* _document.tsx:138-146: fn rejects; sleep(delay) starts if an attempt is left
AttemptRejects ==
    /\ pc = "retryLoop"
    /\ attempt < options.maxRetries
    /\ fnCalls' = Append(fnCalls, "rejected")
    /\ IF sleepsBefore(attempt, options.maxRetries)
       THEN /\ sleeps' = Append(sleeps, delay)
            /\ pc' = "retrySleep"
            /\ UNCHANGED attempt
       ELSE /\ attempt' = attempt + 1
            /\ UNCHANGED <<pc, sleeps>>
    /\ UNCHANGED <<delay, outcome>>
    /\ retryFrame

\* _document.tsx:146-147, 137: the sleep ends; delay = ...; attempt++
SleepEnds ==
    /\ pc = "retrySleep"
    /\ delay' = nextDelay(delay, options)
    /\ attempt' = attempt + 1
    /\ pc' = "retryLoop"
    /\ UNCHANGED <<sleeps, fnCalls, outcome>>
    /\ retryFrame

\* _document.tsx:137, 152-157: the loop ends; throw new AppError(...)
GiveUp ==
    /\ pc = "retryLoop"
    /\ ~(attempt < options.maxRetries)
    /\ outcome' = [type |-> "thrown", code |-> "MAX_RETRIES_EXCEEDED"]
    /\ pc' = "retryDone"
    /\ UNCHANGED <<attempt, delay, sleeps, fnCalls>>
    /\ retryFrame

NextRetry == AttemptResolves \/ AttemptRejects \/ SleepEnds \/ GiveUp

SpecRetry == InitRetry /\ [][NextRetry]_vars

(***************************************************************************)
(* SpecSubscription: one subscription made by                              *)
(* PythClient.subscribeToPriceUpdates (pyth.ts:199-230) and its poll       *)
(* callback, one action per stretch of code between two awaits.            *)
(***************************************************************************)
\* the most calls of onPriceUpdate followed
MaxDelivered == 4
\* the most entries of the map fetchPrices resolves with
MaxUpdates == 2

\* pyth.ts:203-204, 221-222: isActive = true and poll() run to its await
InitSubscription ==
    /\ pc = "fetching"
    /\ isActive = TRUE
    /\ pollTimer = FALSE
    /\ delivered = <<>>
    /\ unsubscribedAt = NotUnsubscribed
    /\ transactions = <<>>
    /\ EngineIdle
    /\ LoopIdle
    /\ HandlerIdle
    /\ LimiterIdle
    /\ RetryIdle

subscriptionFrame ==
    UNCHANGED <<engineVars, loopVars, httpVars, limiterVars, retryVars>>

\* pyth.ts:217-219: if (isActive) setTimeout(poll, pollInterval)
Reschedule ==
    /\ pollTimer' = isActive
    /\ pc' = "polled"

\* pyth.ts:210-219: fetchPrices resolves with size entries
FetchResolves ==
    /\ pc = "fetching"
    /\ \E size \in 0..MaxUpdates :
          IF size > 0
          THEN /\ Len(delivered) < MaxDelivered
               /\ delivered' = Append(delivered, size)
          ELSE UNCHANGED delivered
    /\ Reschedule
    /\ UNCHANGED <<isActive, unsubscribedAt>>
    /\ subscriptionFrame

\* pyth.ts:214-219: fetchPrices rejects
FetchRejects ==
    /\ pc = "fetching"
    /\ Reschedule
    /\ UNCHANGED <<isActive, delivered, unsubscribedAt>>
    /\ subscriptionFrame

\* pyth.ts:206-210: the timer fires and poll runs to its return or its await
PollTimerFires ==
    /\ pc = "polled"
    /\ pollTimer
    /\ pollTimer' = FALSE
    /\ pc' = IF isActive THEN "fetching" ELSE "polled"
    /\ UNCHANGED <<isActive, delivered, unsubscribedAt>>
    /\ subscriptionFrame

\* pyth.ts:225-227: the returned function is called
Unsubscribe ==
    /\ isActive' = FALSE
    /\ unsubscribedAt' = IF unsubscribedAt = NotUnsubscribed
                          THEN Len(delivered) ELSE unsubscribedAt
    /\ UNCHANGED <<pc, pollTimer, delivered>>
    /\ subscriptionFrame

NextSubscription ==
    FetchResolves \/ FetchRejects \/ PollTimerFires \/ Unsubscribe

SpecSubscription == InitSubscription /\ [][NextSubscription]_vars

(***************************************************************************)
(* Helpers of the properties.                                              *)
(***************************************************************************)
RECURSIVE SumTo(_, _)
\* F(1) + ... + F(n)
SumTo(F(_), n) == IF n = 0 THEN 0 ELSE F(n) + SumTo(F, n - 1)

\* the total amount of the lots older than lot i
AmountBefore(ls, i) == SumSeq(lotAmount, SubSeq(ls, 1, i - 1))

\* what a FIFO disposal of amount a takes from lot i of the ledger ls
Consumed(ls, a, i) == Min(ls[i].amount, Max(0, a - AmountBefore(ls, i)))

\* the gain of a FIFO disposal of amount a at price p against the ledger ls
FifoGain(ls, a, p) ==
    SumTo(LAMBDA i : Consumed(ls, a, i) * (p - ls[i].priceUsd), Len(ls))

\* the ledger a FIFO disposal of amount a leaves of the ledger ls
FifoRest(ls, a) ==
    SelectSeq([i \in 1..Len(ls) |->
                  [ls[i] EXCEPT !.amount = @ - Consumed(ls, a, i)]],
              LAMBDA lot : lot.amount # 0)

Lot(a, p, t) == [amount |-> a, priceUsd |-> p, timestamp |-> t]

\* a lot without its amount: what identifies it in the ledger
LotId(lot) == [priceUsd |-> lot.priceUsd, timestamp |-> lot.timestamp]

IsSuffix(s, t) ==
    /\ Len(s) <= Len(t)
    /\ s = SubSeq(t, Len(t) - Len(s) + 1, Len(t))

StepWasDispose == lastTx.type = "sell"
StepWasAcquire == lastTx.type = "buy"
StepWasSend == lastTx.type = "send"

\* the events of the replay as <<type, amount, price>>
Shape(txs) == [i \in 1..Len(txs) |-> <<txs[i].type, txs[i].amount, txs[i].priceUsd>>]

(***************************************************************************)
(* C1.  Every disposal consumes the resident lots strictly oldest first:   *)
(* it takes min(lot amount, amount still to sell) from each lot in ledger  *)
(* order, touches a younger lot only when every older lot is used up, and  *)
(* adds to realizedPnL the sum of consumed * (disposal price - lot cost).  *)
(* Acquiring 10 at 1 and 10 at 2 and disposing of 15 at 3 gives 25 and     *)
(* leaves one lot of 5 at cost 2.                                          *)
(***************************************************************************)
C1_Example ==
    (Shape(simplifiedTxs) = <<<<"buy", 10, 1>>, <<"buy", 10, 2>>, <<"sell", 15, 3>>>>
        /\ idx = 4)
    => /\ realizedPnL = 25
       /\ Len(lots) = 1
       /\ lots[1].amount = 5
       /\ lots[1].priceUsd = 2

C1_FifoOldestFirst ==
    /\ StepWasDispose =>
          /\ realizedPnL - prevRealized
                = FifoGain(prevLots, lastTx.amount, lastTx.priceUsd)
          /\ lots = FifoRest(prevLots, lastTx.amount)
          /\ \A i, j \in 1..Len(prevLots) :
                (i < j /\ Len(lots) > Len(prevLots) - j
                       /\ lots[Len(lots) - (Len(prevLots) - j)].amount
                            < prevLots[j].amount)
                => Len(lots) <= Len(prevLots) - i
    /\ C1_Example

C1_Witness ==
    /\ Shape(simplifiedTxs) = <<<<"buy", 10, 1>>, <<"buy", 10, 2>>, <<"sell", 15, 3>>>>
    /\ idx = 4
    /\ realizedPnL = 25
    /\ lots = <<Lot(5, 2, simplifiedTxs[2].timestamp)>>

(***************************************************************************)
(* C2.  A disposal of more than the ledger holds is a step like any other  *)
(* (the loop has no throw): it empties the ledger, adds to realizedPnL the *)
(* gain of the lots it matched only, leaves no lot with a negative amount, *)
(* and its excess is dropped: an acquisition that follows appends its lot  *)
(* with its full amount.                                                   *)
(***************************************************************************)
OverSold == StepWasDispose /\ lastTx.amount > remainingAmountOf(prevLots)

C2_OverSellTolerance ==
    /\ OverSold =>
          /\ lots = <<>>
          /\ realizedPnL - prevRealized
                = SumTo(LAMBDA i : prevLots[i].amount
                                      * (lastTx.priceUsd - prevLots[i].priceUsd),
                        Len(prevLots))
    /\ \A i \in 1..Len(lots) : lots[i].amount >= 0
    /\ StepWasAcquire =>
          lots = Append(prevLots,
                        Lot(lastTx.amount, lastTx.priceUsd, lastTx.timestamp))

\* acquire 10, dispose of 15, acquire 10: the last lot is whole
C2_Witness ==
    /\ Len(simplifiedTxs) = 3
    /\ idx = 4
    /\ <<simplifiedTxs[1].type, simplifiedTxs[1].amount>> = <<"buy", 10>>
    /\ <<simplifiedTxs[2].type, simplifiedTxs[2].amount>> = <<"sell", 15>>
    /\ <<simplifiedTxs[3].type, simplifiedTxs[3].amount>> = <<"buy", 10>>
    /\ Len(lots) = 1
    /\ lots[1].amount = 10
    /\ realizedPnL = 10 * (simplifiedTxs[2].priceUsd - simplifiedTxs[1].priceUsd)
    /\ realizedPnL # 0

(***************************************************************************)
(* C4.  After every processed event the ledger is sorted by acquisition    *)
(* timestamp, whatever the order of the input list, and a disposal leaves  *)
(* the lots that remain in the order they had.                             *)
(***************************************************************************)
IsSortedByTimestamp(s) ==
    \A i, j \in 1..Len(s) : i < j => TsLeq(s[i].timestamp, s[j].timestamp)

C4_LedgerSorted ==
    /\ IsSortedByTimestamp(lots)
    /\ StepWasDispose => IsSuffix(MapSeq(LotId, lots), MapSeq(LotId, prevLots))

\* an input list out of order, two lots resident after a disposal
C4_Witness ==
    /\ ~IsSortedByTimestamp(transactions)
    /\ StepWasDispose
    /\ Len(lots) = 2
    /\ Len(prevLots) = 2
    /\ TsLess(lots[1].timestamp, lots[2].timestamp)
    /\ lots[1].amount < prevLots[1].amount

(***************************************************************************)
(* C5.  As claimed: the effective holdings that currentValue and           *)
(* unrealizedPnL are computed from are the larger of the supplied balance  *)
(* and the total of the lots that remain.                                  *)
(***************************************************************************)
Returned == pc = "done"

C5_EffectiveIsLarger ==
    Returned =>
        result.currentValue
            = Max(currentBalance, remainingAmountOf(lots)) * currentPrice

(***************************************************************************)
(* C5, amended.  The effective holdings are the supplied balance whenever  *)
(* it is positive, also when it is smaller than the total of the lots that *)
(* remain, and that total only when the supplied balance is not positive;  *)
(* it is the larger of the two when the balance is 0 or at least the total.*)
(***************************************************************************)
EffectiveHoldings ==
    IF currentBalance > 0 THEN currentBalance ELSE remainingAmountOf(lots)

C5_EffectiveIsBalanceIfPositive ==
    Returned =>
        /\ result.currentValue = EffectiveHoldings * currentPrice
        /\ result.unrealizedPnL
              = MinusTimes(result.currentValue, result.costBasis, EffectiveHoldings)
        /\ (currentBalance = 0 \/ currentBalance >= remainingAmountOf(lots))
              => EffectiveHoldings = Max(currentBalance, remainingAmountOf(lots))

\* a positive balance below the lots' total: the balance is what is valued
C5_Witness ==
    /\ Returned
    /\ currentBalance = 5
    /\ remainingAmountOf(lots) = 10
    /\ currentPrice = 2
    /\ result.currentValue = 10

(***************************************************************************)
(* C6.  As claimed: an acquisition followed by a disposal of the same      *)
(* amount at the same price returns realizedPnL 0, no resident lot and     *)
(* unrealizedPnL 0, for every current price and every supplied balance.    *)
(***************************************************************************)
RoundTrip ==
    /\ Len(transactions) = 2
    /\ transactions[1].type = "receive"
    /\ transactions[2].type = "send"
    /\ transactions[1].valueFormatted = transactions[2].valueFormatted
    /\ transactions[1].usdValueAtTime = transactions[2].usdValueAtTime
    /\ TsLeq(transactions[1].timestamp, transactions[2].timestamp)

C6_RoundTripNoUnrealized ==
    (Returned /\ RoundTrip) =>
        /\ result.realizedPnL = 0
        /\ result.remainingLots = <<>>
        /\ result.unrealizedPnL = Div(0, 1)

(***************************************************************************)
(* C6, amended.  The round trip returns realizedPnL 0, no resident lot and *)
(* cost basis 0; unrealizedPnL is the supplied balance times the current   *)
(* price, so it is 0 when the supplied balance or the current price is 0.  *)
(***************************************************************************)
C6_RoundTripValuesBalance ==
    (Returned /\ RoundTrip) =>
        /\ result.realizedPnL = 0
        /\ result.remainingLots = <<>>
        /\ result.costBasis = Div(0, 1)
        /\ result.unrealizedPnL = Div(currentBalance * currentPrice, 1)
        /\ (currentBalance = 0 \/ currentPrice = 0)
              => result.unrealizedPnL = Div(0, 1)

C6_Witness ==
    /\ Returned
    /\ RoundTrip
    /\ transactions[1].valueFormatted = 10
    /\ currentBalance = 5
    /\ currentPrice = 2
    /\ result.realizedPnL = 0
    /\ result.unrealizedPnL = Div(10, 1)

(***************************************************************************)
(* C3.  After every processed event every lot resident in the ledger has   *)
(* an amount above 0 (a lot that reaches 0 is removed in the same step),   *)
(* in the ledger of calculateFIFO and in the lot queue of                  *)
(* calculateTaxLots, for every input list, lists with zero-amount          *)
(* receive events included.                                                *)
(***************************************************************************)
C3_LotsPositive == \A i \in 1..Len(lots) : lots[i].amount > 0

(***************************************************************************)
(* C9.  The gain of every portion a send consumes from a lot goes to       *)
(* longTermGains iff the send is at least 365 * 24 * 60 * 60 * 1000 ms     *)
(* after the lot's acquisition, else to shortTermGains: exactly 365 days   *)
(* after is long-term, one millisecond or one second earlier short-term.   *)
(***************************************************************************)
\* t - l >= one year of milliseconds, for timestamps t and l
AtLeastOneYear(t, l) ==
    \/ t.s - l.s > ONE_YEAR_SEC
    \/ (t.s - l.s = ONE_YEAR_SEC /\ t.ms >= l.ms)

PortionGain(ls, tx, i) ==
    Consumed(ls, tx.valueFormatted, i) * (OrZero(tx.usdValueAtTime) - ls[i].priceUsd)

LongTermPart(ls, tx) ==
    SumTo(LAMBDA i : IF AtLeastOneYear(tx.timestamp, ls[i].timestamp)
                     THEN PortionGain(ls, tx, i) ELSE 0,
          Len(ls))

ShortTermPart(ls, tx) ==
    SumTo(LAMBDA i : IF AtLeastOneYear(tx.timestamp, ls[i].timestamp)
                     THEN 0 ELSE PortionGain(ls, tx, i),
          Len(ls))

OneLotAtZero == Len(prevLots) = 1 /\ prevLots[1].timestamp = Ts(0, 0)

C9_HoldingPeriodBoundary ==
    StepWasSend =>
        /\ longTermGains - prevLong = LongTermPart(prevLots, lastTx)
        /\ shortTermGains - prevShort = ShortTermPart(prevLots, lastTx)
        /\ (OneLotAtZero /\ lastTx.timestamp = Ts(ONE_YEAR_SEC, 0))
              => /\ shortTermGains = prevShort
                 /\ longTermGains - prevLong = PortionGain(prevLots, lastTx, 1)
        /\ (OneLotAtZero
              /\ lastTx.timestamp \in {Ts(ONE_YEAR_SEC - 1, MS_PER_SEC - 1),
                                       Ts(ONE_YEAR_SEC - 1, 0)})
              => /\ longTermGains = prevLong
                 /\ shortTermGains - prevShort = PortionGain(prevLots, lastTx, 1)

\* receive 10 at 1; send 5 at 3 one millisecond before the year is over;
\* send 5 at 3 when it is over
C9_Witness ==
    /\ pc = "taxReplay"
    /\ idx = 4
    /\ StepWasSend
    /\ OneLotAtZero
    /\ lastTx.timestamp = Ts(ONE_YEAR_SEC, 0)
    /\ simplifiedTxs[2].type = "send"
    /\ simplifiedTxs[2].timestamp = Ts(ONE_YEAR_SEC - 1, MS_PER_SEC - 1)
    /\ shortTermGains = 10
    /\ prevLong = 0
    /\ longTermGains = 10

(***************************************************************************)
(* C7.  Inserting an event of amount 0, of any type and price, at any      *)
(* position of the list leaves every field of the calculateTokenPnL result *)
(* as it is for the list without it.                                       *)
(***************************************************************************)
InsertAt(s, pos, x) == SubSeq(s, 1, pos) \o <<x>> \o SubSeq(s, pos + 1, Len(s))

ZeroTxs ==
    {Tx(ty, 0, p, t, TOKEN_ADDR, "ethereum") :
        ty \in CallTypes, p \in {1, NoPrice}, t \in Times}

PnLFields(r) ==
    [realizedPnL      |-> r.realizedPnL,
     unrealizedPnL    |-> r.unrealizedPnL,
     totalPnL         |-> r.totalPnL,
     costBasis        |-> r.costBasis,
     currentValue     |-> r.currentValue,
     totalInvested    |-> r.totalInvested,
     percentageChange |-> r.percentageChange]

C7_ZeroAmountPnL ==
    pc = "pnlReturned" =>
        \A pos \in 0..Len(transactions), z \in ZeroTxs :
            PnLFields(calculateTokenPnL(token, InsertAt(transactions, pos, z),
                                        currentBalance, currentPrice))
                = PnLFields(result)

\* a list that is sold out, so that a zero-amount lot would be the only lot
C7_Witness ==
    /\ pc = "pnlReturned"
    /\ Len(transactions) = 2
    /\ result.realizedPnL = 20
    /\ result.remainingLots = <<>>
    /\ result.costBasis = Div(0, 1)
    /\ LET z == Tx("receive", 0, 1, Ts(1, 0), TOKEN_ADDR, "ethereum") IN
       PnLFields(calculateTokenPnL(token, InsertAt(transactions, 2, z),
                                   currentBalance, currentPrice))
           = PnLFields(result)

(***************************************************************************)
(* C8.  Inserting a receive or send of amount 0 at any position of the     *)
(* list leaves every field of the handler's taxSummary unchanged: the      *)
(* gains, realizedEvents and every byChain entry.                          *)
(***************************************************************************)
C8_ZeroAmountTaxSummary ==
    pc = "summaryReturned" =>
        \A pos \in 0..Len(transactions), z \in ZeroTxs :
            z.type \in {"receive", "send"}
            => taxSummaryOf(InsertAt(transactions, pos, z)) = result

(***************************************************************************)
(* C10.  For one transaction list, of any mix of transaction types, the    *)
(* totalCapitalGains of calculateTaxLots equals the sum over the tokens of *)
(* the realizedPnL of calculateTokenPnL.                                   *)
(***************************************************************************)
C10_TaxEqualsRealized ==
    pc = "taxReturned" =>
        result.totalCapitalGains = totalRealizedPnLOf(transactions)

(***************************************************************************)
(* C11.  For every chain c the byChain entry of the handler's tax summary  *)
(* is the result of the tax classifier, with one lot queue per token-key,  *)
(* over the events of chain c only, so that the byChain short-term and     *)
(* long-term gains summed over the chains are the global short-term and    *)
(* long-term gains, also when a chain holds events of several tokens.      *)
(***************************************************************************)
OnChain(txs, c) == SelectSeq(txs, LAMBDA tx : tx.chainId = c)

C11_ByChainIsClassifierPerChain ==
    pc = "summaryReturned" =>
        /\ \A k \in 1..Len(ChainIds) :
              result.byChain[k]
                  = calculateTaxLots(OnChain(SelectSeq(transactions, isNonZero),
                                             ChainIds[k]))
        /\ SumTo(LAMBDA k : result.byChain[k].shortTermGains, Len(ChainIds))
              = result.shortTermGains
        /\ SumTo(LAMBDA k : result.byChain[k].longTermGains, Len(ChainIds))
              = result.longTermGains

(***************************************************************************)
(* C12.  Token-key identity ignores the letter case of the address:        *)
(* respelling the token address of any one event of the list in the other  *)
(* letter case changes no field of the calculateTokenPnL result and no     *)
(* field of the calculateTaxLots result.                                   *)
(***************************************************************************)
OtherCase(a) ==
    IF a = TOKEN_ADDR THEN TOKEN_ADDR_MIXED
    ELSE IF a = TOKEN_ADDR_MIXED THEN TOKEN_ADDR
    ELSE a

Respelled(txs, i) == [txs EXCEPT ![i].address = OtherCase(@)]

C12_CaseInsensitiveKey ==
    /\ pc = "pnlReturned" =>
          \A i \in 1..Len(transactions) :
              PnLFields(calculateTokenPnL(token, Respelled(transactions, i),
                                          currentBalance, currentPrice))
                  = PnLFields(result)
    /\ pc = "taxReturned" =>
          \A i \in 1..Len(transactions) :
              calculateTaxLots(Respelled(transactions, i)) = result

(***************************************************************************)
(* C13.  Token-keys are independent.  The calculateTokenPnL result for the *)
(* token K is its result on K's events alone, so it is unchanged by        *)
(* inserting an event of another token-key at any position and by removing *)
(* one.  The gains of calculateTaxLots are the sum over the token-keys of  *)
(* its gains on the events of each key alone, in the order they have in    *)
(* the list: no disposal of one key consumes a lot of another, however the *)
(* keys interleave.                                                        *)
(***************************************************************************)
\* the token-keys of the wallet, whatever the spelling of the address
KeyOf(tx) == <<tx.chainId, toLowerCase(tx.address)>>

WalletKeys == {KeyOf([address |-> tok.address, chainId |-> tok.chainId]) :
                  tok \in WalletTokens}

OfKey(txs, key) == SelectSeq(txs, LAMBDA tx : KeyOf(tx) = key)

TheKey == <<TheToken.chainId, TheToken.address>>

RemoveAt(s, i) == SubSeq(s, 1, i - 1) \o SubSeq(s, i + 1, Len(s))

RECURSIVE SumOver(_, _)
\* the sum of F(x) over the elements x of the finite set S
SumOver(F(_), S) ==
    IF S = {} THEN 0
    ELSE LET x == CHOOSE y \in S : TRUE IN F(x) + SumOver(F, S \ {x})

C13_TokenKeysIndependent ==
    /\ pc = "pnlReturned" =>
          /\ result = calculateTokenPnL(token, OfKey(transactions, TheKey),
                                        currentBalance, currentPrice)
          /\ \A pos \in 0..Len(transactions), z \in WalletTxs :
                KeyOf(z) # TheKey
                => calculateTokenPnL(token, InsertAt(transactions, pos, z),
                                     currentBalance, currentPrice) = result
          /\ \A i \in 1..Len(transactions) :
                KeyOf(transactions[i]) # TheKey
                => calculateTokenPnL(token, RemoveAt(transactions, i),
                                     currentBalance, currentPrice) = result
    /\ pc = "taxReturned" =>
          /\ result.shortTermGains
                = SumOver(LAMBDA key :
                              calculateTaxLots(OfKey(transactions, key)).shortTermGains,
                          WalletKeys)
          /\ result.longTermGains
                = SumOver(LAMBDA key :
                              calculateTaxLots(OfKey(transactions, key)).longTermGains,
                          WalletKeys)

\* a lot of K is resident when a send of another token-key is processed: the
\* send realizes nothing, in the tax classifier and in K's PnL
C13_Witness ==
    /\ pc = "taxReturned"
    /\ transactions = <<Tx("receive", 10, 1, Ts(0, 0), TOKEN_ADDR, "ethereum"),
                        Tx("send", 10, MaxPrice, Ts(1, 0), OTHER_ADDR, "ethereum")>>
    /\ calculateTaxLots(OfKey(transactions, TheKey)).totalCapitalGains = 0
    /\ calculateTokenPnL(token, transactions, 0, 0).remainingLots
          = <<Lot(10, 1, Ts(0, 0))>>
    /\ result.totalCapitalGains = 0

(***************************************************************************)
(* C14.  The replay order is the input order sorted by timestamp, and      *)
(* events of one timestamp keep the order they have in the caller's list,  *)
(* in calculateTokenPnL and in every group of calculateTaxLots.  A         *)
(* disposal listed before an acquisition of the same timestamp is replayed *)
(* first: it does not consume the lot of that acquisition.                 *)
(***************************************************************************)
AtTime(s, t) == SelectSeq(s, LAMBDA x : x.timestamp = t)

TiesKeepOrder(sorted, given) ==
    /\ Len(sorted) = Len(given)
    /\ IsSortedByTimestamp(sorted)
    /\ \A i \in 1..Len(given) :
          AtTime(sorted, given[i].timestamp) = AtTime(given, given[i].timestamp)

SendThenReceiveAtOnce ==
    /\ Len(transactions) = 2
    /\ transactions[1].type = "send"
    /\ transactions[2].type = "receive"
    /\ transactions[1].timestamp = transactions[2].timestamp
    /\ transactions[1].valueFormatted > 0
    /\ transactions[2].valueFormatted > 0

\* the replay order is fixed when the replay begins, the groups when the
\* list is given
C14_StableTieBreak ==
    /\ (pc = "replay" /\ idx = 1) =>
          TiesKeepOrder(simplifiedTxs,
                        MapSeq(simplify,
                               SelectSeq(transactions,
                                         LAMBDA tx : tx.valueFormatted > 0)))
    /\ (pc = "replay" /\ SendThenReceiveAtOnce /\ idx = 3) =>
          /\ realizedPnL = 0
          /\ lots = <<Lot(transactions[2].valueFormatted,
                          transactions[2].usdValueAtTime,
                          transactions[2].timestamp)>>
    /\ pc = "start" =>
          /\ \A k \in 1..Len(groupByToken(transactions)) :
                TiesKeepOrder(sortByTimestamp(groupByToken(transactions)[k]),
                              groupByToken(transactions)[k])
          /\ SendThenReceiveAtOnce =>
                calculateTaxLots(transactions).totalCapitalGains = 0

\* send 10 at 3, then receive 10 at 1, both at time 0: nothing is realized
C14_Witness ==
    /\ pc = "replay"
    /\ idx = 3
    /\ transactions = <<Tx("send", 10, MaxPrice, Ts(0, 0), TOKEN_ADDR, "ethereum"),
                        Tx("receive", 10, 1, Ts(0, 0), TOKEN_ADDR, "ethereum")>>
    /\ simplifiedTxs[1].type = "sell"
    /\ realizedPnL = 0
    /\ lots = <<Lot(10, 1, Ts(0, 0))>>

(***************************************************************************)
(* C15.  realizedEvents of the tax summary counts the disposal events the  *)
(* classifier processed, one per send whatever the number of lots the send *)
(* consumes, and the count is kept per chain: the count the summary holds  *)
(* for a chain is the number of sends on that chain.                       *)
(***************************************************************************)
\* the sends the classifier is given: line 213 hands it the non-zero events
SendsProcessed(txs) ==
    Cardinality({i \in 1..Len(txs) :
                    txs[i].type = "send" /\ txs[i].valueFormatted > 0})

\* the count the summary holds for chain k: a field of the chain's entry, or
\* else the one count of the summary
CountKept(summary, k) ==
    IF "realizedEvents" \in DOMAIN summary.byChain[k]
    THEN summary.byChain[k].realizedEvents
    ELSE summary.realizedEvents

C15_RealizedEventsPerChain ==
    pc = "summaryReturned" =>
        \A k \in 1..Len(ChainIds) :
            CountKept(result, k) = SendsProcessed(OnChain(transactions, ChainIds[k]))

(***************************************************************************)
(* C16.  During the replay totalInvested is the sum of amount * unit price *)
(* over the acquisition events replayed so far: an acquisition adds its    *)
(* amount * price, a disposal leaves it as it is, and no step lowers it.   *)
(***************************************************************************)
InvestedSoFar ==
    SumTo(LAMBDA i : IF simplifiedTxs[i].type = "buy"
                     THEN simplifiedTxs[i].amount * simplifiedTxs[i].priceUsd
                     ELSE 0,
          idx - 1)

C16_TotalInvestedNeverDecreases ==
    pc \in {"replay", "done"} =>
        /\ totalInvested = InvestedSoFar
        /\ totalInvested >= prevInvested
        /\ StepWasDispose => totalInvested = prevInvested
        /\ StepWasAcquire =>
              totalInvested = prevInvested + lastTx.amount * lastTx.priceUsd

\* acquire 10 at 1 and 15 at 2, then dispose of 15 at 3: 40 stays invested
C16_Witness ==
    /\ pc = "replay"
    /\ idx = 4
    /\ StepWasDispose
    /\ Shape(simplifiedTxs) = <<<<"buy", 10, 1>>, <<"buy", 15, 2>>, <<"sell", 15, 3>>>>
    /\ prevInvested = 40
    /\ totalInvested = 40
    /\ realizedPnL = 25

(***************************************************************************)
(* C17.  The costBasis calculateTokenPnL returns is the weighted average   *)
(* unit cost of the resident lots, the sum of amount * unit cost divided   *)
(* by the sum of amount, and 0 when no lot is resident; the divisor is     *)
(* never 0, so costBasis is never NaN, for every event list.               *)
(***************************************************************************)
C17_CostBasisWeightedAverage ==
    Returned =>
        /\ result.costBasis # NaN
        /\ result.costBasis.den > 0
        /\ lots = <<>> => result.costBasis = Div(0, 1)
        /\ lots # <<>> =>
              /\ SumTo(LAMBDA i : lots[i].amount, Len(lots)) > 0
              /\ result.costBasis.num * SumTo(LAMBDA i : lots[i].amount, Len(lots))
                    = SumTo(LAMBDA i : lots[i].amount * lots[i].priceUsd, Len(lots))
                        * result.costBasis.den

\* lots of 10 at 1 and 10 at 2 resident, a zero-amount receive in the list:
\* the cost basis is 3/2
C17_Witness ==
    /\ Returned
    /\ Len(lots) = 2
    /\ Len(transactions) = 3
    /\ \E i \in 1..3 : transactions[i].valueFormatted = 0
    /\ <<lots[1].amount, lots[1].priceUsd>> = <<10, 1>>
    /\ <<lots[2].amount, lots[2].priceUsd>> = <<10, 2>>
    /\ result.costBasis = [num |-> 3, den |-> 2]

(***************************************************************************)
(* C18.  For every event list, balance and current price the result of     *)
(* calculateTokenPnL satisfies totalPnL = realizedPnL + unrealizedPnL.     *)
(***************************************************************************)
C18_TotalIsRealizedPlusUnrealized ==
    Returned =>
        /\ result.unrealizedPnL # NaN
        /\ result.totalPnL # NaN
        /\ result.totalPnL.num * result.unrealizedPnL.den
              = (result.realizedPnL * result.unrealizedPnL.den
                    + result.unrealizedPnL.num) * result.totalPnL.den

\* 25 realized, 5 left at cost 2 and worth nothing now: 25 - 10 = 15
C18_Witness ==
    /\ Returned
    /\ currentPrice = 0
    /\ result.realizedPnL = 25
    /\ result.unrealizedPnL = [num |-> -10, den |-> 1]
    /\ result.totalPnL = [num |-> 15, den |-> 1]

(***************************************************************************)
(* C19.  For the list of per-token results the handler builds, the         *)
(* totalPnL of calculatePortfolioPnL is the sum of the tokens' totalPnL,   *)
(* the values of calculatePnLByChain sum to the same total, and every      *)
(* token's totalPnL is counted in the entry of its chain and in no other:  *)
(* an entry is the sum of the totalPnL of the tokens of its chain.         *)
(***************************************************************************)
RECURSIVE FracSumOver(_, _)
\* the sum of the fractions F(x) over the elements x of the finite set S
FracSumOver(F(_), S) ==
    IF S = {} THEN Div(0, 1)
    ELSE LET x == CHOOSE y \in S : TRUE
         IN  AddFrac(F(x), FracSumOver(F, S \ {x}))

TokensOn(pnlByToken, c) == {k \in 1..Len(pnlByToken) : pnlByToken[k].chainId = c}

C19_AggregationConsistent ==
    pc = "portfolioReturned" =>
        LET pnls == result.pnlByToken
            entries == result.pnlByChain
            total == FracSumOver(LAMBDA k : pnls[k].totalPnL, 1..Len(pnls))
        IN  /\ result.portfolioMetrics.totalPnL = total
            /\ FracSumOver(LAMBDA c : entries[c], DOMAIN entries) = total
            /\ DOMAIN entries = {pnls[k].chainId : k \in 1..Len(pnls)}
            /\ \A c \in DOMAIN entries :
                  entries[c] = FracSumOver(LAMBDA k : pnls[k].totalPnL,
                                           TokensOn(pnls, c))

\* two tokens on ethereum, each 10 up: the entry of ethereum and the total
\* are 20
C19_Witness ==
    /\ pc = "portfolioReturned"
    /\ Len(result.pnlByToken) = 2
    /\ result.pnlByToken[1].chainId = "ethereum"
    /\ result.pnlByToken[2].chainId = "ethereum"
    /\ result.pnlByToken[1].totalPnL = [num |-> 10, den |-> 1]
    /\ result.pnlByToken[2].totalPnL = [num |-> 10, den |-> 1]
    /\ result.pnlByChain["ethereum"] = [num |-> 20, den |-> 1]
    /\ result.portfolioMetrics.totalPnL = [num |-> 20, den |-> 1]

(***************************************************************************)
(* C20.  calculateTokenPnL and calculateTaxLots keep nothing between calls *)
(* and leave the caller's list as it is, in order and in every             *)
(* valueFormatted: every call of a sequence of calls on one list, in any   *)
(* order, is given the list as it was first given and returns what a first *)
(* call with its arguments returns, so equal calls return equal results.   *)
(***************************************************************************)
FirstCallResult(fn, txs) ==
    CASE fn[1] = "calculateTokenPnL" ->
            calculateTokenPnL(token, txs, fn[2], fn[3])
      [] fn[1] = "calculateTaxLots" -> calculateTaxLots(txs)
      [] fn[1] = "taxSummary" -> taxSummaryOf(txs)
      [] fn[1] = "portfolio" -> portfolioOf(txs, token, fn[2], fn[3])

ConsumedLots(ls, tx) ==
    {i \in 1..Len(ls) : Consumed(ls, tx.valueFormatted, i) > 0}

HeldAYear(ls, tx, i) ==
    TsLeq(ONE_YEAR, TsMinus(tx.timestamp, ls[i].timestamp))

C21_PerLotHoldingPeriod ==
    StepWasSend =>
        LET taken == ConsumedLots(prevLots, lastTx)
            old == {i \in taken : HeldAYear(prevLots, lastTx, i)}
        IN  /\ longTermGains - prevLong
                  = SumOver(LAMBDA i : PortionGain(prevLots, lastTx, i), old)
            /\ shortTermGains - prevShort
                  = SumOver(LAMBDA i : PortionGain(prevLots, lastTx, i),
                            taken \ old)
            /\ (/\ old # {}
                /\ taken \ old # {}
                /\ \A i \in taken : PortionGain(prevLots, lastTx, i) > 0)
                  => /\ longTermGains > prevLong
                     /\ shortTermGains > prevShort

\* lots of 5 at 1 received at time 0 and a year later, a send of 10 at the
\* highest price a year after time 0: one half long-term, one half short-term
C21_Witness ==
    /\ pc = "taxReplay"
    /\ StepWasSend
    /\ lastTx.timestamp = Ts(ONE_YEAR_SEC, 0)
    /\ lastTx.valueFormatted = 10
    /\ prevLots = <<Lot(5, 1, Ts(0, 0)), Lot(5, 1, Ts(ONE_YEAR_SEC, 0))>>
    /\ lots = <<>>
    /\ longTermGains - prevLong = 5 * (MaxPrice - 1)
    /\ shortTermGains - prevShort = 5 * (MaxPrice - 1)

(***************************************************************************)
(* C22.  In calculateTokenPnL realized PnL comes only from sends: receive  *)
(* and swap events are acquisitions, and an event of any other type        *)
(* (contract_interaction) consumes no lot and changes no realizedPnL, so   *)
(* the result is the one of the list without the events of other types.    *)
(***************************************************************************)
isTransfer(tx) == tx.type \in {"receive", "swap", "send"}

C22_OnlySendsRealize ==
    pc = "pnlReturned" =>
        LET r == calculateTokenPnL(token, SelectSeq(transactions, isTransfer),
                                   currentBalance, currentPrice)
        IN  /\ result.realizedPnL = r.realizedPnL
            /\ result.remainingLots = r.remainingLots

(***************************************************************************)
(* C23.  Ledger frame.  An acquisition only appends one lot and changes no *)
(* existing lot; a disposal only removes lots from the front and           *)
(* decrements the amount of at most one lot, which is then the front lot;  *)
(* a resident lot's amount never increases and its unit cost and           *)
(* acquisition timestamp never change.                                     *)
(***************************************************************************)
\* the lots the step removed from the front of the ledger
Removed == Len(prevLots) - Len(lots)

C23_LedgerFrame ==
    /\ StepWasAcquire =>
          /\ Len(lots) = Len(prevLots) + 1
          /\ \A i \in 1..Len(prevLots) : lots[i] = prevLots[i]
    /\ StepWasDispose =>
          /\ Removed >= 0
          /\ \A i \in 1..Len(lots) :
                /\ LotId(lots[i]) = LotId(prevLots[Removed + i])
                /\ lots[i].amount <= prevLots[Removed + i].amount
                /\ i > 1 => lots[i] = prevLots[Removed + i]

\* lots of 10 and 15, a disposal of 15 at the second price: the first lot
\* is removed, the second is the front lot and holds 10
C23_Witness ==
    /\ StepWasDispose
    /\ lastTx.amount = 15
    /\ Len(prevLots) = 2
    /\ prevLots[1].amount = 10
    /\ prevLots[2].amount = 15
    /\ Len(lots) = 1
    /\ lots[1].amount = 10
    /\ LotId(lots[1]) = LotId(prevLots[2])

(***************************************************************************)
(* C24.  Conservation of quantity in calculateFIFO: after every processed  *)
(* event the sum of the amounts of the resident lots is the total amount   *)
(* acquired so far minus the total amount matched by disposals so far,     *)
(* where a disposal matches min(its amount, the sum of the resident lots   *)
(* just before it).                                                        *)
(***************************************************************************)
AcquiredBy(txs, i) == IF isAcquire(txs[i]) THEN txs[i].amount ELSE 0

RECURSIVE ResidentAfter(_, _)
\* what event i of txs takes out of the ledger
MatchedBy(txs, i) ==
    IF isAcquire(txs[i]) THEN 0
    ELSE Min(txs[i].amount, ResidentAfter(txs, i - 1))

\* the quantity resident after the first n events of txs
ResidentAfter(txs, n) ==
    IF n = 0 THEN 0
    ELSE ResidentAfter(txs, n - 1) + AcquiredBy(txs, n) - MatchedBy(txs, n)

C24_Conservation ==
    pc \in {"replay", "done"} =>
        /\ remainingAmountOf(lots)
              = SumTo(LAMBDA i : AcquiredBy(simplifiedTxs, i), idx - 1)
                  - SumTo(LAMBDA i : MatchedBy(simplifiedTxs, i), idx - 1)
        /\ StepWasDispose =>
              remainingAmountOf(prevLots) - remainingAmountOf(lots)
                  = Min(lastTx.amount, remainingAmountOf(prevLots))
        /\ StepWasAcquire =>
              remainingAmountOf(lots)
                  = remainingAmountOf(prevLots) + lastTx.amount

\* acquire 15, dispose of 10, acquire 10: 15 resident in two lots; the
\* disposal before matched 10 of the 15 resident
C24_Witness ==
    /\ pc = "replay"
    /\ idx = 4
    /\ Shape(simplifiedTxs)
          \in {<<<<"buy", 15, p>>, <<"sell", 10, MaxPrice>>, <<"buy", 10, q>>>> :
                  p, q \in Prices}
    /\ MatchedBy(simplifiedTxs, 2) = 10
    /\ Len(lots) = 2
    /\ remainingAmountOf(lots) = 15

(***************************************************************************)
(* C25.  The lot-matching loop of a disposal terminates for every event    *)
(* with amount >= 0: each iteration either removes the front lot or sets   *)
(* the remaining amount to 0, and on exit either the remaining amount is 0 *)
(* or the ledger is empty; in calculateFIFO, in calculateTaxLots and in    *)
(* the per-chain loop of the handler, also with a lot of amount 0 at the   *)
(* front.                                                                  *)
(***************************************************************************)
InLoop == pc \in {"fifoLoop", "taxLoop", "chainLoop"}
LoopExited == pc \in {"fifoExit", "taxExit", "chainExit"}

\* the exits leave what the whole loop leaves
LoopIsSell ==
    /\ pc = "fifoExit" =>
          Ledger(lots, realizedPnL, totalInvested)
              = fifoSell(Ledger(prevLots, 0, 0), lastTx.amount, lastTx.priceUsd)
    /\ pc = "taxExit" =>
          TaxState(lots, shortTermGains, longTermGains)
              = taxSell(TaxState(prevLots, 0, 0), lastTx.valueFormatted, lastTx)
    /\ pc = "chainExit" =>
          TaxState(lots, shortTermGains, longTermGains)
              = chainSell(TaxState(prevLots, 0, 0), lastTx.valueFormatted,
                          lastTx)

C25_LoopTerminates ==
    /\ [][(InLoop /\ pc' = pc) =>
              (lots' = Tail(lots) \/ stillToSell' = 0)]_vars
    /\ [](LoopExited => (stillToSell = 0 \/ lots = <<>>))
    /\ [](LoopExited => LoopIsSell)
    /\ <>LoopExited

\* a send of 5 against an empty lot followed by a lot of 10: the loop has
\* removed the empty lot, taken 5 of the next and ended
C25_Witness ==
    /\ LoopExited
    /\ Len(prevLots) = 2
    /\ prevLots[1].amount = 0
    /\ prevLots[2].amount = 10
    /\ Len(lots) = 1
    /\ lots[1].amount = 5
    /\ stillToSell = 0

(***************************************************************************)
(* C26.  Every invocation of the GET /api/wallet/[address] handler sends   *)
(* exactly one HTTP response (405, 200 or 500) before it returns, on every *)
(* path, also when a fetched transaction has no token address.             *)
(***************************************************************************)
C26_ExactlyOneResponse ==
    pc = "handlerReturned" =>
        /\ Len(res) = 1
        /\ res[1] \in {405, 200, 500}

(***************************************************************************)
(* C27.  RateLimiter.execute never runs more than maxConcurrent functions  *)
(* at once: in every reachable state, under any interleaving of execute    *)
(* calls, completions and delayed wake-ups, 0 <= activeCount <=            *)
(* maxConcurrent, and activeCount is the number of functions running.      *)
(***************************************************************************)
Running == {c \in DOMAIN callers : callers[c].at = "running"}

C27_ActiveCountBounded ==
    /\ 0 <= activeCount
    /\ activeCount <= maxConcurrent
    /\ activeCount = Cardinality(Running)

\* every slot is taken while a caller, shifted off the queue when a slot
\* was free, waits for its timer
C27_Witness ==
    /\ activeCount = maxConcurrent
    /\ timers # <<>>
    /\ \E c \in DOMAIN callers : callers[c].at \in {"returned", "thrown"}

(***************************************************************************)
(* C28.  RateLimiter has no lost wake-up: if every submitted function      *)
(* eventually completes and no new execute calls arrive, every caller      *)
(* waiting in the queue eventually runs its function; no reachable state   *)
(* has a non-empty queue, activeCount < maxConcurrent and no pending       *)
(* wake-up.                                                                *)
(***************************************************************************)
LostWakeUp ==
    /\ queue # <<>>
    /\ activeCount < maxConcurrent
    /\ timers = <<>>

C28_NoLostWakeUp ==
    /\ []~LostWakeUp
    /\ \A c \in Callers :
          (callers # <<>> /\ callers[c].at = "waiting")
              ~> (callers[c].at = "running")

\* a caller that pushed its resolve twice, its slot taken when it woke the
\* first time, runs
C28_Witness ==
    \E c \in DOMAIN callers :
        /\ callers[c].at = "running"
        /\ callers[c].waits = 2

(***************************************************************************)
(* C29.  retryWithBackoff calls fn at most maxRetries times, returns the   *)
(* result of the first attempt that succeeds without calling fn again,     *)
(* throws AppError MAX_RETRIES_EXCEEDED after maxRetries consecutive       *)
(* failures, sleeps only between attempts (never after the last), and each *)
(* delay is the previous delay times backoffMultiplier capped at maxDelay. *)
(***************************************************************************)
Rejected == {i \in 1..Len(fnCalls) : fnCalls[i] = "rejected"}

C29_RetryWithBackoff ==
    /\ Len(fnCalls) <= options.maxRetries
    /\ \A i \in 1..Len(fnCalls) - 1 : fnCalls[i] = "rejected"
    /\ (fnCalls # <<>> /\ fnCalls[Len(fnCalls)] = "resolved") =>
          outcome = [type |-> "returned", call |-> Len(fnCalls)]
    /\ pc = "retryDone" =>
          /\ outcome # None
          /\ outcome.type = "thrown" <=>
                 Cardinality(Rejected) = options.maxRetries
          /\ outcome.type = "thrown" => outcome.code = "MAX_RETRIES_EXCEEDED"
    /\ pc # "retryDone" => outcome = None
    /\ Len(sleeps)
          = Min(Cardinality(Rejected), Max(0, options.maxRetries - 1))
    /\ pc = "retrySleep" => Len(fnCalls) < options.maxRetries
    /\ \A i \in 1..Len(sleeps) :
          sleeps[i] = IF i = 1 THEN options.initialDelay
                      ELSE Min(sleeps[i - 1] * options.backoffMultiplier,
                               options.maxDelay)

\* three failures of three attempts: two sleeps, the second delay capped,
\* and the error thrown with no sleep after the third failure
C29_Witness ==
    /\ pc = "retryDone"
    /\ options.maxRetries = 3
    /\ fnCalls = <<"rejected", "rejected", "rejected">>
    /\ outcome.type = "thrown"
    /\ Len(sleeps) = 2
    /\ sleeps[2] = options.maxDelay
    /\ sleeps[2] < sleeps[1] * options.backoffMultiplier

(***************************************************************************)
(* C30.  After the unsubscribe function returned by                        *)
(* PythClient.subscribeToPriceUpdates has been called, onPriceUpdate is    *)
(* never invoked again and no further poll is scheduled, also when         *)
(* unsubscribe is called while a fetchPrices request is in flight.         *)
(***************************************************************************)
Unsubscribed == unsubscribedAt # NotUnsubscribed

C30_NoUpdateAfterUnsubscribe ==
    Unsubscribed => Len(delivered) = unsubscribedAt

\* the half of C30 about the timer: no setTimeout after unsubscribe, and no
\* fetchPrices started
NoPollAfterUnsubscribe ==
    [][Unsubscribed => /\ pollTimer' => pollTimer
                       /\ pc' = "fetching" => pc = "fetching"]_vars

====
